---- MODULE Spec2Model ----
(***************************************************************************)
(* A model of the golem-social-net actors: the per-user Timeline and Chat  *)
(* registries, the User actor's connection graph with its echo messages,   *)
(* the Fan-out Coordinator (TimelinesUpdaterAgent) and the long-poll loop. *)
(*                                                                         *)
(* Timestamps are fixed-width ISO-8601 strings in the code, compared with  *)
(* localeCompare and the string ">"; on such strings both orders are the   *)
(* chronological order, so a timestamp is modelled as a natural number and *)
(* the wall clock as a variable that never goes back.  Actors are          *)
(* single-threaded (one invocation at a time), so a handler is one atomic  *)
(* action; a trigger appends a message to the destination's inbox, which   *)
(* is delivered in FIFO order.  The readings of the clock within one       *)
(* handler are taken as one reading: no handler compares them.             *)
(***************************************************************************)
EXTENDS Integers, Sequences, FiniteSets, TLC

\* ------------------------------------------------------------------ bounds

\* The wall clock runs over 0..MaxClock.
MaxClock == 1
\* Stands in for POSTS_MAX_COUNT = 500 (user-timeline/index.ts:16).
POSTS_MAX_COUNT == 2
\* Stands in for CHATS_MAX_COUNT = 500 (user_posts/index.ts:193).
CHATS_MAX_COUNT == 2
\* Longest Ref list one postsUpdated message carries in the registry specification.
MaxRefs == 2
\* External connectUser / disconnectUser commands issued in one behaviour.
MaxCmds == 3
\* External postUpdated commands issued in one behaviour of the fan-out.
MaxUpdates == 1

UserIds == {"A", "B", "C"}
PostIds == {"p1", "p2", "p3"}
ChatIds == {"c1", "c2", "c3"}

\* A Timestamp is { timestamp: string } with the string getCurrentTimestamp
\* builds, an ISO date of fixed width; the code compares these strings, and a
\* natural stands for one, ordered as the strings are.
Times == 0..MaxClock

\* UserConnectionType (common/types.ts)
Friend == "Friend"
Follower == "Follower"
Following == "Following"
UserConnectionType == {Friend, Follower, Following}
\* createdByConnectionType: null
NoConnection == "null"

VARIABLES
    clock,          \* the wall clock read by getCurrentTimestamp()
    timeline,       \* timeline[u]: UserTimelineAgent(u).state
    timelineInbox,  \* timelineInbox[u]: postsUpdated triggers sent to UserTimelineAgent(u)
    userChats,      \* userChats[u]: UserChatsAgent(u).state
    usedChatIds,    \* chat ids already generated or seen (crypto.randomUUID is fresh)
    chatInbox,      \* chatInbox[c]: the initChat triggers sent to ChatAgent(c)
    users,          \* users[u]: UserAgent(u).state
    userInbox,      \* userInbox[u]: connectUser / disconnectUser triggers sent to UserAgent(u)
    cmdCount,       \* external commands issued so far
    script,         \* the external commands a scenario still has to issue
    post,           \* post[p]: PostAgent(p).state
    updater,        \* updater[u]: TimelinesUpdaterAgent(u).state
    updaterInbox,   \* updaterInbox[u]: postUpdated triggers sent to TimelinesUpdaterAgent(u)
    ledger,         \* per PostUpdate: its upserts not yet overwritten or distributed
    poll,           \* the local variables and position of one pollForUpdates call
    chat,           \* ChatAgent state per chat id
    userChatsInbox, \* per user: addChat / chatUpdated triggers sent to the Chat Registry
    lastOp          \* the handler that ran last, its input and what it did

regVars == <<timeline, userChats, usedChatIds, chatInbox>>
userVars == <<users, userInbox, cmdCount, script>>
fanVars == <<post, updater, updaterInbox, timelineInbox, ledger>>
chatVars == <<chat, userChatsInbox>>

vars == <<clock, timeline, timelineInbox, userChats, usedChatIds, chatInbox,
          users, userInbox, cmdCount, script, post, updater, updaterInbox,
          ledger, poll, chat, userChatsInbox, lastOp>>

\* ----------------------------------------------------------------- helpers

Range(s) == {s[i] : i \in 1..Len(s)}

Take(s, n) == IF Len(s) > n THEN SubSeq(s, 1, n) ELSE s

\* e placed after every element whose updatedAt is >= e.updatedAt.
RECURSIVE InsertDesc(_, _)
InsertDesc(s, e) ==
    IF s = <<>> THEN <<e>>
    ELSE IF Head(s).updatedAt >= e.updatedAt
         THEN <<Head(s)>> \o InsertDesc(Tail(s), e)
         ELSE <<e>> \o s

\* Array.prototype.sort((a, b) =>
\*   b.updatedAt.timestamp.localeCompare(a.updatedAt.timestamp)):
\* a stable sort, latest updatedAt first.
RECURSIVE SortDesc(_)
SortDesc(s) ==
    IF s = <<>> THEN <<>>
    ELSE InsertDesc(SortDesc(SubSeq(s, 1, Len(s) - 1)), s[Len(s)])

\* ------------------------------------------------------- Timeline Registry

\* state === null
NullTimeline == [isNull |-> TRUE, userId |-> "", posts |-> <<>>,
                 createdAt |-> 0, updatedAt |-> 0]

\* UserTimelineAgent.getState: the state, created empty when it was null.
TimelineGetState(st, id, now) ==
    IF st.isNull
    THEN [isNull |-> FALSE, userId |-> id, posts |-> <<>>,
          createdAt |-> now, updatedAt |-> now]
    ELSE st

PostRef(p, by, ct, c, u) ==
    [postId |-> p, createdBy |-> by, createdByConnectionType |-> ct,
     createdAt |-> c, updatedAt |-> u]

\* postsUpdated without the filter that drops the Refs being replaced.
TimelineMergeNoFilter(posts, refs) ==
    Take(SortDesc(posts \o refs), POSTS_MAX_COUNT)

\* The posts list after postsUpdated(refs): the Refs of the same post ids
\* dropped, the new ones appended, sorted, cut to the capacity.
TimelineMerge(posts, refs) ==
    LET ids == {r.postId : r \in Range(refs)}
        kept == SelectSeq(posts, LAMBDA p : p.postId \notin ids)
    IN  Take(SortDesc(kept \o refs), POSTS_MAX_COUNT)

\* postsUpdated leaving the Ref of a post the timeline already holds as it is.
TimelinePostsUpdatedKeepingOld(st, id, refs, now) ==
    LET s == TimelineGetState(st, id, now)
        fresh == SelectSeq(refs, LAMBDA r : \A i \in 1..Len(s.posts) :
                                                s.posts[i].postId # r.postId)
    IN  [s EXCEPT !.posts = Take(SortDesc(s.posts \o fresh), POSTS_MAX_COUNT),
                  !.updatedAt = now]

\* UserTimelineAgent.postsUpdated(posts) at the registry of user id.
TimelinePostsUpdated(st, id, refs, now) ==
    LET s == TimelineGetState(st, id, now)
    IN  [s EXCEPT !.posts = TimelineMerge(s.posts, refs), !.updatedAt = now]

\* getUpdates returned null.
NullUpdates == [isNull |-> TRUE, userId |-> "", refs |-> <<>>]

\* A variant of TimelineGetUpdates that keeps the Refs updated at since too.
TimelineGetUpdatesInclusive(st, since) ==
    IF ~st.isNull
    THEN [isNull |-> FALSE, userId |-> st.userId,
          refs |-> SelectSeq(st.posts, LAMBDA p : p.updatedAt >= since)]
    ELSE NullUpdates

\* A variant of TimelineGetUpdates that answers for a registry without state.
TimelineGetUpdatesAlways(st, since) ==
    [isNull |-> FALSE, userId |-> st.userId,
     refs |-> SelectSeq(st.posts, LAMBDA p : p.updatedAt > since)]

\* UserTimelineAgent.getUpdates(updatesSince): null, or the owner id with the
\* posts filtered by p.updatedAt.timestamp > since.timestamp.
TimelineGetUpdates(st, since) ==
    IF ~st.isNull
    THEN [isNull |-> FALSE, userId |-> st.userId,
          refs |-> SelectSeq(st.posts, LAMBDA p : p.updatedAt > since)]
    ELSE NullUpdates

\* ----------------------------------------------------------- Chat Registry

NullUserChats == [isNull |-> TRUE, userId |-> "", chats |-> <<>>,
                  createdAt |-> 0, updatedAt |-> 0]

\* UserChatsAgent.getState
ChatsGetState(st, id, now) ==
    IF st.isNull
    THEN [isNull |-> FALSE, userId |-> id, chats |-> <<>>,
          createdAt |-> now, updatedAt |-> now]
    ELSE st

ChatRef(c, by, cAt, uAt) ==
    [chatId |-> c, createdBy |-> by, createdAt |-> cAt, updatedAt |-> uAt]

\* A variant of ChatIndex that finds no chat.
ChatIndexNone(chats, chatId) == 0

\* findIndex(c => c.chatId === chatId): the first index, 0 when there is none.
ChatIndex(chats, chatId) ==
    IF \E i \in 1..Len(chats) : chats[i].chatId = chatId
    THEN CHOOSE i \in 1..Len(chats) :
            /\ chats[i].chatId = chatId
            /\ \A j \in 1..(i - 1) : chats[j].chatId # chatId
    ELSE 0

\* createChat / addChat cutting the list from the front.
ChatsPushKeepLast(chats, ref) ==
    LET all == SortDesc(Append(chats, ref))
    IN  IF Len(all) > CHATS_MAX_COUNT
        THEN SubSeq(all, Len(all) - CHATS_MAX_COUNT + 1, Len(all))
        ELSE all

\* The chats list after createChat / addChat pushed ref: sorted, cut to the capacity.
ChatsPush(chats, ref) ==
    Take(SortDesc(Append(chats, ref)), CHATS_MAX_COUNT)

\* The chats list after chatUpdated replaced the updatedAt of the Ref at idx: sorted.
ChatsTouch(chats, idx, updatedAt) ==
    SortDesc([chats EXCEPT ![idx].updatedAt = updatedAt])

\* UserChatsAgent.chatUpdated(chatId, updatedAt) at the registry of user id:
\* the state it leaves (the state as getState made it when the chat is unknown).
ChatsChatUpdated(st, id, chatId, updatedAt, now) ==
    LET s == ChatsGetState(st, id, now)
        chatIdx == ChatIndex(s.chats, chatId)
    IN  IF chatIdx # 0
        THEN [s EXCEPT !.chats = ChatsTouch(s.chats, chatIdx, updatedAt),
                       !.updatedAt = now]
        ELSE s

\* UserChatsAgent.addChat(chatId, createdBy, createdAt) at the registry of
\* user id: the state it leaves.
ChatsAddChat(st, id, chatId, createdBy, createdAt, now) ==
    LET s == ChatsGetState(st, id, now)
    IN  IF ChatIndex(s.chats, chatId) = 0
        THEN [s EXCEPT !.chats = ChatsPush(s.chats,
                                    ChatRef(chatId, createdBy, createdAt, now)),
                       !.updatedAt = now]
        ELSE s

\* The chats list after removeChat(chatId).
ChatsRemove(chats, chatId) ==
    SelectSeq(chats, LAMBDA c : c.chatId # chatId)

\* UserChatsAgent.getUpdates(updatesSince): null, or the owner id with the
\* chats filtered by c.updatedAt.timestamp > since.timestamp.
ChatsGetUpdates(st, since) ==
    IF ~st.isNull
    THEN [isNull |-> FALSE, userId |-> st.userId,
          refs |-> SelectSeq(st.chats, LAMBDA c : c.updatedAt > since)]
    ELSE NullUpdates

\* ---------------------------------------------------------------- User actor

\* getOppositeConnectionType returning its argument.
SameConnectionType(type) == type

\* getOppositeConnectionType (common/types.ts)
getOppositeConnectionType(type) ==
    CASE type = Follower -> Following
      [] type = Following -> Follower
      [] type = Friend -> Friend

\* state === null
NullUser == [isNull |-> TRUE, userId |-> "", name |-> "null", connectedUsers |-> <<>>,
             createdAt |-> 0, updatedAt |-> 0]

\* UserAgent.getState
UserGetState(st, id, now) ==
    IF st.isNull
    THEN [isNull |-> FALSE, userId |-> id, name |-> "null", connectedUsers |-> <<>>,
          createdAt |-> now, updatedAt |-> now]
    ELSE st

\* connectedUsers.findIndex(u => u[0] === userId): the first index, 0 for none.
ConnectionIndex(connectedUsers, userId) ==
    IF \E i \in 1..Len(connectedUsers) : connectedUsers[i].userId = userId
    THEN CHOOSE i \in 1..Len(connectedUsers) :
            /\ connectedUsers[i].userId = userId
            /\ \A j \in 1..(i - 1) : connectedUsers[j].userId # userId
    ELSE 0

\* connectionTypes.includes(connectionType)
Includes(connectionTypes, connectionType) ==
    \E i \in 1..Len(connectionTypes) : connectionTypes[i] = connectionType

RemoveAt(s, i) == SubSeq(s, 1, i - 1) \o SubSeq(s, i + 1, Len(s))

\* shouldConnect without its tests.
ShouldConnectAlways(s, userId, connectionType) == TRUE

\* UserAgent.connectUser: shouldConnect
ShouldConnect(s, userId, connectionType) ==
    LET existingIdx == ConnectionIndex(s.connectedUsers, userId)
    IN  /\ userId # s.userId
        /\ \/ existingIdx = 0
           \/ ~Includes(s.connectedUsers[existingIdx].connectionTypes, connectionType)

\* connectUser setting updatedAt also when it connects nothing.
UserConnectedTouching(s, userId, connectionType, now) ==
    LET existingIdx == ConnectionIndex(s.connectedUsers, userId)
    IN  IF ~ShouldConnect(s, userId, connectionType) THEN [s EXCEPT !.updatedAt = now]
        ELSE IF existingIdx # 0
        THEN [s EXCEPT !.connectedUsers[existingIdx].connectionTypes =
                            Append(@, connectionType),
                       !.connectedUsers[existingIdx].updatedAt = now,
                       !.updatedAt = now]
        ELSE [s EXCEPT !.connectedUsers = Append(@,
                            [userId |-> userId, connectionTypes |-> <<connectionType>>,
                             createdAt |-> now, updatedAt |-> now]),
                       !.updatedAt = now]

\* UserAgent.connectUser: the state after the call (s is getState()).
UserConnected(s, userId, connectionType, now) ==
    LET existingIdx == ConnectionIndex(s.connectedUsers, userId)
    IN  IF ~ShouldConnect(s, userId, connectionType) THEN s
        ELSE IF existingIdx # 0
        THEN [s EXCEPT !.connectedUsers[existingIdx].connectionTypes =
                            Append(@, connectionType),
                       !.connectedUsers[existingIdx].updatedAt = now,
                       !.updatedAt = now]
        ELSE [s EXCEPT !.connectedUsers = Append(@,
                            [userId |-> userId, connectionTypes |-> <<connectionType>>,
                             createdAt |-> now, updatedAt |-> now]),
                       !.updatedAt = now]

\* UserAgent.disconnectUser: shouldDisconnect
ShouldDisconnect(s, userId, connectionType) ==
    LET existingIdx == ConnectionIndex(s.connectedUsers, userId)
    IN  /\ userId # s.userId
        /\ existingIdx # 0
        /\ Includes(s.connectedUsers[existingIdx].connectionTypes, connectionType)

\* disconnectUser removing the whole record whatever it holds.
UserDisconnectedWhole(s, userId, connectionType, now) ==
    LET existingIdx == ConnectionIndex(s.connectedUsers, userId)
    IN  IF ~ShouldDisconnect(s, userId, connectionType) THEN s
        ELSE [s EXCEPT !.connectedUsers = RemoveAt(@, existingIdx),
                       !.updatedAt = now]

\* UserAgent.disconnectUser: the state after the call (s is getState()).
UserDisconnected(s, userId, connectionType, now) ==
    LET existingIdx == ConnectionIndex(s.connectedUsers, userId)
    IN  IF ~ShouldDisconnect(s, userId, connectionType) THEN s
        ELSE IF Len(s.connectedUsers[existingIdx].connectionTypes) = 1
        THEN [s EXCEPT !.connectedUsers = RemoveAt(@, existingIdx),
                       !.updatedAt = now]
        ELSE [s EXCEPT !.connectedUsers[existingIdx].connectionTypes =
                            SelectSeq(@, LAMBDA c : c # connectionType),
                       !.connectedUsers[existingIdx].updatedAt = now,
                       !.updatedAt = now]

\* The message a trigger of connectUser / disconnectUser puts in the target's inbox.
UserMsg(op, userId, connectionType) ==
    [op |-> op, userId |-> userId, connectionType |-> connectionType]

\* One invocation of UserAgent(self).connectUser or .disconnectUser, with the
\* trigger it sends to the other user when it changed the state; inbox is the
\* inboxes when the handler starts.
UserHandle(self, op, userId, connectionType, inbox) ==
    LET s == UserGetState(users[self], self, clock)
        changed == IF op = "connectUser"
                   THEN ShouldConnect(s, userId, connectionType)
                   ELSE ShouldDisconnect(s, userId, connectionType)
        after == IF op = "connectUser"
                 THEN UserConnected(s, userId, connectionType, clock)
                 ELSE UserDisconnected(s, userId, connectionType, clock)
    IN  /\ lastOp' = [op |-> op, who |-> self, ok |-> TRUE, cut |-> changed]
        /\ users' = [users EXCEPT ![self] = after]
        /\ userInbox' =
                IF changed
                THEN [inbox EXCEPT ![userId] = Append(@,
                        UserMsg(op, s.userId, getOppositeConnectionType(connectionType)))]
                ELSE inbox
        /\ UNCHANGED <<clock, regVars, fanVars, poll, chatVars>>

\* An external connectUser / disconnectUser command at user self.
UserCommand(self, op, userId, connectionType) ==
    /\ cmdCount < MaxCmds
    /\ cmdCount' = cmdCount + 1
    /\ UNCHANGED script
    /\ UserHandle(self, op, userId, connectionType, userInbox)

\* The users of the connection specification: a command or an echo touches the
\* connection records of one pair of users only.
ConnUsers == {"A", "B"}

ConnectUser(self) ==
    \E userId \in ConnUsers, connectionType \in UserConnectionType :
        UserCommand(self, "connectUser", userId, connectionType)

DisconnectUser(self) ==
    \E userId \in ConnUsers, connectionType \in UserConnectionType :
        UserCommand(self, "disconnectUser", userId, connectionType)

\* The trigger at the head of self's inbox is invoked.
UserDeliver(self) ==
    /\ userInbox[self] # <<>>
    /\ LET m == Head(userInbox[self])
       IN  UserHandle(self, m.op, m.userId, m.connectionType,
                      [userInbox EXCEPT ![self] = Tail(@)])
    /\ UNCHANGED <<cmdCount, script>>

\* The next command of a scenario is issued.
ScriptStep ==
    /\ script # <<>>
    /\ script' = Tail(script)
    /\ UNCHANGED cmdCount
    /\ LET c == Head(script)
       IN  UserHandle(c.self, c.op, c.userId, c.connectionType, userInbox)

InitUsers ==
    /\ users = [u \in UserIds |-> NullUser]
    /\ userInbox = [u \in UserIds |-> <<>>]
    /\ cmdCount = 0
    /\ script = <<>>

\* ------------------------------------------------- Post actor and fan-out

\* PostAgent.state === null
NullPost == [isNull |-> TRUE, postId |-> "", content |-> "", createdBy |-> "",
             likes |-> <<>>, comments |-> <<>>, createdAt |-> 0, updatedAt |-> 0]

\* initPostState followed by initializePostAgent (post/index.ts)
InitializedPost(postId, createdBy, content, now) ==
    [isNull |-> FALSE, postId |-> postId, content |-> content, createdBy |-> createdBy,
     likes |-> <<>>, comments |-> <<>>, createdAt |-> now, updatedAt |-> now]

PostUpdate(postId, createdAt, updatedAt) ==
    [postId |-> postId, createdAt |-> createdAt, updatedAt |-> updatedAt]

\* TimelinesUpdaterAgent.state === null
NullPostUpdates == [isNull |-> TRUE, userId |-> "", updates |-> <<>>,
                    createdAt |-> 0, updatedAt |-> 0]

\* initPostUpdates
initPostUpdates(userId, now) ==
    [isNull |-> FALSE, userId |-> userId, updates |-> <<>>,
     createdAt |-> now, updatedAt |-> now]

\* TimelinesUpdaterAgent.getState
UpdaterGetState(st, id, now) ==
    IF st.isNull THEN initPostUpdates(id, now) ELSE st

\* A variant of updatePostUpdates that pushes without dropping the former entry.
updatePostUpdatesNoFilter(state, update, now) ==
    [state EXCEPT !.updates = Append(@, update), !.updatedAt = now]

\* updatePostUpdates: the entry of the same post id dropped, the update pushed.
updatePostUpdates(state, update, now) ==
    [state EXCEPT !.updates = Append(SelectSeq(@, LAMBDA u : u.postId # update.postId),
                                     update),
                  !.updatedAt = now]

\* A variant of clearPostUpdates that returns the updates and keeps them.
clearPostUpdatesKeeping(state, now) ==
    [state EXCEPT !.updatedAt = now]

\* clearPostUpdates: the state it leaves (it returns the former updates).
clearPostUpdates(state, now) ==
    [state EXCEPT !.updates = <<>>, !.updatedAt = now]

\* A variant of RefsOfUpdates that leaves the connection type out.
RefsOfUpdatesUntagged(updates, createdBy, ct) ==
    [i \in 1..Len(updates) |->
        PostRef(updates[i].postId, createdBy, NoConnection, updates[i].createdAt,
                updates[i].updatedAt)]

\* The PostRef list executePostsUpdates builds from the updates for one
\* connection type (null for the author's own timeline).
RefsOfUpdates(updates, createdBy, ct) ==
    [i \in 1..Len(updates) |->
        PostRef(updates[i].postId, createdBy, ct, updates[i].createdAt,
                updates[i].updatedAt)]

\* The postsUpdated triggers of executePostsUpdates for the connected users
\* from index i on, in the order of the two loops: <<target, refs>> pairs.
RECURSIVE ConnectionTriggers(_, _, _, _)
ConnectionTriggers(connectedUsers, i, updates, createdBy) ==
    IF i > Len(connectedUsers) THEN <<>>
    ELSE LET cu == connectedUsers[i]
         IN  [k \in 1..Len(cu.connectionTypes) |->
                 <<cu.userId, RefsOfUpdates(updates, createdBy, cu.connectionTypes[k])>>]
             \o ConnectionTriggers(connectedUsers, i + 1, updates, createdBy)

\* All triggers of one executePostsUpdates that found the user: the author's
\* own timeline first.
DrainTriggers(user, updates, id) ==
    <<<<id, RefsOfUpdates(updates, id, NoConnection)>>>>
    \o ConnectionTriggers(user.connectedUsers, 1, updates, id)

\* The inboxes after the triggers were sent in order.
RECURSIVE SendAll(_, _)
SendAll(inbox, triggers) ==
    IF triggers = <<>> THEN inbox
    ELSE SendAll([inbox EXCEPT ![Head(triggers)[1]] = Append(@, Head(triggers)[2])],
                 Tail(triggers))

\* executePostsUpdates distributes: the queue is not empty and getUser() is not null.
Distributes(state, user) == state.updates # <<>> /\ ~user.isNull

\* A variant of StateAfterDrain that clears the queue when the user is missing.
StateAfterDrainDropping(state, user, now) ==
    IF state.updates # <<>> THEN clearPostUpdates(state, now) ELSE state

\* executePostsUpdates: the updater state it leaves.
StateAfterDrain(state, user, now) ==
    IF Distributes(state, user) THEN clearPostUpdates(state, now) ELSE state

\* The ledger counts, per update, the upserts that were neither overwritten by a
\* later upsert of the same post id nor distributed yet.
\* The ledger after update was upserted into queue updates: one more of
\* update, one less of every queued entry of its post id.
RECURSIVE LedgerUpsert(_, _, _)
LedgerUpsert(l, updates, update) ==
    IF updates = <<>> THEN [l EXCEPT ![update] = @ + 1]
    ELSE LedgerUpsert(IF Head(updates).postId = update.postId
                      THEN [l EXCEPT ![Head(updates)] = @ - 1]
                      ELSE l,
                      Tail(updates), update)

\* The ledger after refs were sent to the timeline of id: one less of every
\* update carried as a Ref of id without connection type.
RECURSIVE LedgerSent(_, _, _)
LedgerSent(l, refs, id) ==
    IF refs = <<>> THEN l
    ELSE LedgerSent(IF /\ Head(refs).createdBy = id
                      /\ Head(refs).createdByConnectionType = NoConnection
                   THEN [l EXCEPT ![PostUpdate(Head(refs).postId, Head(refs).createdAt,
                                               Head(refs).updatedAt)] = @ - 1]
                   ELSE l,
                   Tail(refs), id)

\* The ledger after the triggers were sent: the triggers to the author's own
\* timeline count.
RECURSIVE LedgerDistribute(_, _, _)
LedgerDistribute(l, triggers, id) ==
    IF triggers = <<>> THEN l
    ELSE LedgerDistribute(IF Head(triggers)[1] = id
                          THEN LedgerSent(l, Head(triggers)[2], id)
                          ELSE l,
                          Tail(triggers), id)

\* The update field of lastOp for a call that carries none.
NoUpdate == [postId |-> "", createdAt |-> 0, updatedAt |-> 0]

\* executePostsUpdates at TimelinesUpdaterAgent(id), whose state is state (the
\* result of getState()), with l the ledger when it starts; call describes the
\* public method that runs it.
ExecutePostsUpdates(id, state, l, call) ==
    LET user == users[id]
        triggers == IF Distributes(state, user)
                    THEN DrainTriggers(user, state.updates, id)
                    ELSE <<>>
    IN  /\ updater' = [updater EXCEPT ![id] = StateAfterDrain(state, user, clock)]
        /\ timelineInbox' = SendAll(timelineInbox, triggers)
        /\ ledger' = LedgerDistribute(l, triggers, id)
        /\ lastOp' = [op |-> call.op, who |-> id, ok |-> TRUE,
                      cut |-> Distributes(state, user),
                      batch |-> state.updates, userMissing |-> user.isNull,
                      update |-> call.update,
                      processImmediately |-> TRUE,
                      replaced |-> call.replaced]

\* TimelinesUpdaterAgent(id).postUpdated(update, processImmediately)
PostUpdatedHandler(id, update, processImmediately) ==
    LET s == UpdaterGetState(updater[id], id, clock)
        state == updatePostUpdates(s, update, clock)
        l == LedgerUpsert(ledger, s.updates, update)
        replaced == \E i \in 1..Len(s.updates) :
                        /\ s.updates[i].postId = update.postId
                        /\ s.updates[i] # update
    IN  IF processImmediately
        THEN ExecutePostsUpdates(id, state, l,
                [op |-> "postUpdated", update |-> update, replaced |-> replaced])
        ELSE /\ updater' = [updater EXCEPT ![id] = state]
             /\ ledger' = l
             /\ lastOp' = [op |-> "postUpdated", who |-> id, ok |-> TRUE, cut |-> FALSE,
                           batch |-> <<>>, userMissing |-> FALSE,
                           update |-> update, processImmediately |-> FALSE,
                           replaced |-> replaced]
             /\ UNCHANGED timelineInbox

\* The authors of the fan-out specification.
FanAuthors == {"A"}

\* The posts of the fan-out specification.
FanPostIds == {"p1", "p2"}

\* The updates an external postUpdated command carries: an initialized post,
\* updated now.
FanUpdates ==
    {PostUpdate(p, post[p].createdAt, clock) : p \in {q \in FanPostIds : ~post[q].isNull}}

AllUpdates == {PostUpdate(p, c, t) : p \in FanPostIds, c \in Times, t \in Times}

\* PostAgent(p).initPost(createdBy, content) without the "already exists"
\* test.
InitPostCallAgain(p, createdBy) ==
    /\ post' = [post EXCEPT ![p] = InitializedPost(p, createdBy, "x", clock)]
    /\ updaterInbox' = [updaterInbox EXCEPT ![createdBy] = Append(@,
            [update |-> PostUpdate(p, clock, clock),
             processImmediately |-> TRUE])]
    /\ lastOp' = [op |-> "initPost", who |-> p, ok |-> TRUE, cut |-> FALSE,
                  batch |-> <<>>, userMissing |-> FALSE]
    /\ UNCHANGED <<clock, regVars, userVars, updater, timelineInbox, ledger, poll, chatVars>>

\* PostAgent(p).initPost(createdBy, content)
InitPostCall(p, createdBy) ==
    /\ IF post[p].isNull
       THEN /\ post' = [post EXCEPT ![p] = InitializedPost(p, createdBy, "x", clock)]
            /\ updaterInbox' = [updaterInbox EXCEPT ![createdBy] = Append(@,
                    [update |-> PostUpdate(p, clock, clock),
                     processImmediately |-> TRUE])]
       ELSE UNCHANGED <<post, updaterInbox>>
    /\ lastOp' = [op |-> "initPost", who |-> p, ok |-> post[p].isNull, cut |-> FALSE,
                  batch |-> <<>>, userMissing |-> FALSE]
    /\ UNCHANGED <<clock, regVars, userVars, updater, timelineInbox, ledger, poll, chatVars>>

InitPost(p) == \E createdBy \in FanAuthors : InitPostCall(p, createdBy)

\* The postUpdated trigger at the head of the updater's inbox is invoked.
UpdaterDeliver(id) ==
    /\ updaterInbox[id] # <<>>
    /\ updaterInbox' = [updaterInbox EXCEPT ![id] = Tail(@)]
    /\ LET m == Head(updaterInbox[id])
       IN  PostUpdatedHandler(id, m.update, m.processImmediately)
    /\ UNCHANGED <<clock, regVars, userVars, post, poll, chatVars>>

\* An external TimelinesUpdaterAgent(id).postUpdated(update, processImmediately).
PostUpdated(id) ==
    \E update \in FanUpdates, processImmediately \in BOOLEAN :
        /\ cmdCount < MaxUpdates
        /\ cmdCount' = cmdCount + 1
        /\ PostUpdatedHandler(id, update, processImmediately)
        /\ UNCHANGED <<clock, regVars, users, userInbox, script, post, updaterInbox, poll, chatVars>>

\* An external TimelinesUpdaterAgent(id).processPostsUpdates().
ProcessPostsUpdates(id) ==
    /\ ExecutePostsUpdates(id, UpdaterGetState(updater[id], id, clock), ledger,
            [op |-> "processPostsUpdates", update |-> NoUpdate, replaced |-> FALSE])
    /\ UNCHANGED <<clock, regVars, userVars, post, updaterInbox, poll, chatVars>>

\* The postsUpdated trigger at the head of the timeline's inbox is invoked.
TimelineDeliver(u) ==
    /\ timelineInbox[u] # <<>>
    /\ timelineInbox' = [timelineInbox EXCEPT ![u] = Tail(@)]
    /\ timeline' = [timeline EXCEPT
            ![u] = TimelinePostsUpdated(timeline[u], u, Head(timelineInbox[u]), clock)]
    /\ lastOp' = [op |-> "postsUpdated", who |-> u, ok |-> TRUE, cut |-> FALSE,
                  batch |-> <<>>, userMissing |-> FALSE]
    /\ UNCHANGED <<clock, userChats, usedChatIds, chatInbox, userVars, post, updater,
                   updaterInbox, ledger, poll, chatVars>>

\* UserAgent(u).setName(name)
SetName(u) ==
    \E name \in {"n"} :
        /\ users[u].name # name
        /\ users' = [users EXCEPT ![u] =
                [UserGetState(users[u], u, clock) EXCEPT !.name = name,
                                                         !.updatedAt = clock]]
        /\ lastOp' = [op |-> "setName", who |-> u, ok |-> TRUE, cut |-> FALSE,
                      batch |-> <<>>, userMissing |-> FALSE]
        /\ UNCHANGED <<clock, regVars, userInbox, cmdCount, script, fanVars, poll, chatVars>>

\* ------------------------------------------------ chat agent
\* ChatAgent (chat/index.ts): one agent per chat id.  Its state is null
\* until a successful initChat.  Every notification is a `.trigger` to the
\* UserChatsAgent of one participant: it is appended to that user's
\* userChatsInbox in the order the loops of executeAddChat and
\* executeChatUpdates issue them.

ChatUsers == {"A", "B", "C"}
ChatAgentIds == {"c1"}
MessageIds == {"m1", "m2", "m3"}
LikeTypes == {"Like", "Dislike"}
MAX_CHAT_LENGTH == 2
MaxChatTriggers == 7

NullChat ==
    [isNull |-> TRUE, chatId |-> "", createdBy |-> "", participants |-> <<>>,
     messages |-> <<>>, createdAt |-> 0, updatedAt |-> 0]

InitChatIdle ==
    /\ chat = [c \in ChatAgentIds |-> NullChat]
    /\ userChatsInbox = [u \in ChatUsers |-> <<>>]

Contains(s, x) == \E i \in 1..Len(s) : s[i] = x

NoDedup(s) == s

\* Array.from(new Set(s)): the elements of s in the order of their first
\* occurrence.
RECURSIVE Dedup(_)
Dedup(s) ==
    IF s = <<>> THEN <<>>
    ELSE LET front == Dedup(Take(s, Len(s) - 1))
             last == s[Len(s)]
         IN IF Contains(front, last) THEN front ELSE Append(front, last)

initChatState(chatId, now) ==
    [isNull |-> FALSE, chatId |-> chatId, createdBy |-> "", participants |-> <<>>,
     messages |-> <<>>, createdAt |-> now, updatedAt |-> now]

initializeChatAgent(state, participantsIds, createdBy, createdAt) ==
    [state EXCEPT !.createdBy = createdBy,
                  !.participants = Dedup(Append(participantsIds, createdBy)),
                  !.createdAt = createdAt,
                  !.updatedAt = createdAt]

executeChatUpdates(chatId, participantsIds, updatedAt) ==
    [i \in 1..Len(participantsIds) |->
        <<participantsIds[i],
          [op |-> "chatUpdated", chatId |-> chatId, updatedAt |-> updatedAt]>>]

executeAddChatEveryone(chatId, createdBy, createdAt, participantsIds) ==
    [i \in 1..Len(participantsIds) |->
        <<participantsIds[i],
          [op |-> "addChat", chatId |-> chatId, createdBy |-> createdBy,
           createdAt |-> createdAt]>>]

executeAddChat(chatId, createdBy, createdAt, participantsIds) ==
    LET others == SelectSeq(participantsIds, LAMBDA pId : pId # createdBy)
    IN [i \in 1..Len(others) |->
           <<others[i],
             [op |-> "addChat", chatId |-> chatId, createdBy |-> createdBy,
              createdAt |-> createdAt]>>]

newParticipantsOfAll(state, participantsIds) == participantsIds

newParticipantsOf(state, participantsIds) ==
    SelectSeq(participantsIds, LAMBDA id : ~Contains(state.participants, id))

addChatParticipants(state, participantsIds, now) ==
    LET newParticipants == newParticipantsOf(state, participantsIds)
    IN IF newParticipants = <<>> THEN state
       ELSE [state EXCEPT !.participants = @ \o newParticipants,
                          !.updatedAt = now]

addChatMessageNoCap(state, messageId, userId, content, now) ==
    [ok |-> TRUE,
     state |-> [state EXCEPT
        !.messages = Append(@, [messageId |-> messageId, content |-> content,
                                likes |-> <<>>, createdBy |-> userId,
                                createdAt |-> now, updatedAt |-> now]),
        !.updatedAt = now]]

addChatMessage(state, messageId, userId, content, now) ==
    IF Len(state.messages) >= MAX_CHAT_LENGTH
    THEN [ok |-> FALSE, state |-> state]
    ELSE [ok |-> TRUE,
          state |-> [state EXCEPT
             !.messages = Append(@, [messageId |-> messageId, content |-> content,
                                     likes |-> <<>>, createdBy |-> userId,
                                     createdAt |-> now, updatedAt |-> now]),
             !.updatedAt = now]]

removeChatMessage(state, messageId, now) ==
    LET kept == SelectSeq(state.messages, LAMBDA m : m.messageId # messageId)
    IN IF Len(kept) < Len(state.messages)
       THEN [ok |-> TRUE, state |-> [state EXCEPT !.messages = kept, !.updatedAt = now]]
       ELSE [ok |-> FALSE, state |-> state]

\* A like is the pair <<userId, likeType>> of the code's likes array.
setChatMessageLike(state, messageId, userId, likeType, now) ==
    IF \E i \in 1..Len(state.messages) : state.messages[i].messageId = messageId
    THEN LET i == CHOOSE j \in 1..Len(state.messages) :
                     /\ state.messages[j].messageId = messageId
                     /\ \A k \in 1..(j - 1) : state.messages[k].messageId # messageId
             m == state.messages[i]
             likes == Append(SelectSeq(m.likes, LAMBDA l : l[1] # userId),
                             <<userId, likeType>>)
         IN [ok |-> TRUE,
             state |-> [state EXCEPT
                !.messages[i] = [m EXCEPT !.likes = likes, !.updatedAt = now],
                !.updatedAt = now]]
    ELSE [ok |-> FALSE, state |-> state]

removeChatMessageLike(state, messageId, userId, now) ==
    IF \E i \in 1..Len(state.messages) : state.messages[i].messageId = messageId
    THEN LET i == CHOOSE j \in 1..Len(state.messages) :
                     /\ state.messages[j].messageId = messageId
                     /\ \A k \in 1..(j - 1) : state.messages[k].messageId # messageId
             m == state.messages[i]
             likes == SelectSeq(m.likes, LAMBDA l : l[1] # userId)
         IN IF Len(likes) < Len(m.likes)
            THEN [ok |-> TRUE,
                  state |-> [state EXCEPT
                     !.messages[i] = [m EXCEPT !.likes = likes, !.updatedAt = now],
                     !.updatedAt = now]]
            ELSE [ok |-> FALSE, state |-> state]
    ELSE [ok |-> FALSE, state |-> state]

ChatOp(name, c, ok) == [op |-> name, who |-> c, ok |-> ok, cut |-> FALSE]

ChatIdle == UNCHANGED <<clock, regVars, userVars, fanVars, poll>>

\* The outcome of one ChatAgent call: the state it leaves and the triggers
\* it issues; a failed call leaves the state and sends nothing.
ChatOutcome(name, c, ok, state, triggers) ==
    /\ lastOp' = ChatOp(name, c, ok)
    /\ chat' = [chat EXCEPT ![c] = state]
    /\ userChatsInbox' = SendAll(userChatsInbox, triggers)
    /\ ChatIdle

ChatFailed(name, c) == ChatOutcome(name, c, FALSE, chat[c], <<>>)

ChatTriggersInFlight ==
    Len(userChatsInbox["A"]) + Len(userChatsInbox["B"]) + Len(userChatsInbox["C"])

InitChatCall(c, participantsIds, createdBy, createdAt) ==
    IF ~chat[c].isNull THEN ChatFailed("initChat", c)
    ELSE IF Len(Dedup(Append(participantsIds, createdBy))) < 2
    THEN ChatFailed("initChat", c)
    ELSE LET state == initializeChatAgent(initChatState(c, clock), participantsIds,
                                          createdBy, createdAt)
         IN ChatOutcome("initChat", c, TRUE, state,
                executeAddChat(state.chatId, createdBy, state.createdAt,
                               state.participants))

AddParticipantsCall(c, participantsIds) ==
    IF chat[c].isNull THEN ChatFailed("addParticipants", c)
    ELSE LET oldParticipants == chat[c].participants
             newParticipants == newParticipantsOf(chat[c], participantsIds)
             state == addChatParticipants(chat[c], participantsIds, clock)
         IN IF newParticipants = <<>> THEN ChatFailed("addParticipants", c)
            ELSE ChatOutcome("addParticipants", c, TRUE, state,
                    executeAddChat(state.chatId, state.createdBy, state.updatedAt,
                                   newParticipants)
                    \o executeChatUpdates(state.chatId, oldParticipants,
                                          state.updatedAt))

\* The four message operations share one shape: on success they notify
\* state.participants with state.updatedAt, on failure they return an error.
MessageOutcome(name, c, r) ==
    IF r.ok
    THEN ChatOutcome(name, c, TRUE, r.state,
            executeChatUpdates(r.state.chatId, r.state.participants, r.state.updatedAt))
    ELSE ChatFailed(name, c)

\* addMessage without the test for a chat that does not exist.
AddMessageCallOnAny(c, messageId, userId, content) ==
    MessageOutcome("addMessage", c,
        addChatMessage(IF chat[c].isNull THEN initChatState(c, clock) ELSE chat[c],
                       messageId, userId, content, clock))

AddMessageCall(c, messageId, userId, content) ==
    IF chat[c].isNull THEN ChatFailed("addMessage", c)
    ELSE MessageOutcome("addMessage", c,
            addChatMessage(chat[c], messageId, userId, content, clock))

RemoveMessageCall(c, messageId) ==
    IF chat[c].isNull THEN ChatFailed("removeMessage", c)
    ELSE MessageOutcome("removeMessage", c, removeChatMessage(chat[c], messageId, clock))

SetMessageLikeCall(c, messageId, userId, likeType) ==
    IF chat[c].isNull THEN ChatFailed("setMessageLike", c)
    ELSE MessageOutcome("setMessageLike", c,
            setChatMessageLike(chat[c], messageId, userId, likeType, clock))

RemoveMessageLikeCall(c, messageId, userId) ==
    IF chat[c].isNull THEN ChatFailed("removeMessageLike", c)
    ELSE MessageOutcome("removeMessageLike", c,
            removeChatMessageLike(chat[c], messageId, userId, clock))

\* The callers' inputs.  A message id is a fresh uuid, generated only after
\* the length check has passed.
InitParticipantLists ==
    {<<>>, <<"A", "A">>, <<"B">>, <<"B", "B">>, <<"A", "B">>, <<"B", "C">>}
AddParticipantLists == {<<"B">>, <<"C">>, <<"C", "C">>, <<"B", "C">>}
ChatCreators == {"A"}
MessageAuthors == {"A"}
LikeUsers == {"A", "B"}
Contents == {"hi"}

MessageIdsOf(state) == {state.messages[i].messageId : i \in 1..Len(state.messages)}

UuidsFor(c) ==
    IF MessageIds \ MessageIdsOf(chat[c]) = {} THEN MessageIds
    ELSE MessageIds \ MessageIdsOf(chat[c])

InitChat(c) ==
    /\ ChatTriggersInFlight < MaxChatTriggers
    /\ \E participantsIds \in InitParticipantLists : \E createdBy \in ChatCreators :
       \E createdAt \in 0..clock :
          InitChatCall(c, participantsIds, createdBy, createdAt)

AddParticipants(c) ==
    /\ ChatTriggersInFlight < MaxChatTriggers
    /\ \E participantsIds \in AddParticipantLists :
          AddParticipantsCall(c, participantsIds)

AddMessage(c) ==
    /\ ChatTriggersInFlight < MaxChatTriggers
    /\ \E messageId \in UuidsFor(c) : \E userId \in MessageAuthors :
       \E content \in Contents :
          AddMessageCall(c, messageId, userId, content)

RemoveMessage(c) ==
    /\ ChatTriggersInFlight < MaxChatTriggers
    /\ \E messageId \in MessageIds : RemoveMessageCall(c, messageId)

SetMessageLike(c) ==
    /\ ChatTriggersInFlight < MaxChatTriggers
    /\ \E messageId \in MessageIds : \E userId \in LikeUsers :
       \E likeType \in LikeTypes :
          SetMessageLikeCall(c, messageId, userId, likeType)

RemoveMessageLike(c) ==
    /\ ChatTriggersInFlight < MaxChatTriggers
    /\ \E messageId \in MessageIds : \E userId \in LikeUsers :
          RemoveMessageLikeCall(c, messageId, userId)

\* ------------------------------------------------ post comments
\* PostAgent.addComment / removeComment (post/index.ts).  comments is the
\* code's array of pairs [commentId, Comment]; a comment id is a fresh uuid,
\* generated only after the length check has passed.

MAX_COMMENTS_LENGTH == 2
PostAgentIds == {"p1"}
CommentIds == {"k1", "k2", "k3"}
NoParent == "null"
ParentCommentIds == {NoParent} \cup CommentIds
CommentAuthors == {"A"}
PostAuthors == {"A", "B"}

NewComment(cid, userId, content, parentCommentId, now) ==
    <<cid, [commentId |-> cid, parentCommentId |-> parentCommentId,
            content |-> content, likes |-> <<>>, createdBy |-> userId,
            createdAt |-> now, updatedAt |-> now]>>

addPostCommentNoCap(state, cid, userId, content, parentCommentId, now) ==
    [ok |-> TRUE,
     state |-> [state EXCEPT
        !.comments = Append(@, NewComment(cid, userId, content, parentCommentId, now)),
        !.updatedAt = now]]

addPostComment(state, cid, userId, content, parentCommentId, now) ==
    IF Len(state.comments) >= MAX_COMMENTS_LENGTH
    THEN [ok |-> FALSE, state |-> state]
    ELSE [ok |-> TRUE,
          state |-> [state EXCEPT
             !.comments = Append(@, NewComment(cid, userId, content,
                                               parentCommentId, now)),
             !.updatedAt = now]]

\* removePostComment without the test on parentCommentId.
removePostCommentAlone(state, commentId, now) ==
    LET kept == SelectSeq(state.comments, LAMBDA c : c[1] # commentId)
    IN IF Len(kept) # Len(state.comments)
       THEN [ok |-> TRUE, state |-> [state EXCEPT !.comments = kept, !.updatedAt = now]]
       ELSE [ok |-> FALSE, state |-> state]

removePostComment(state, commentId, now) ==
    LET kept == SelectSeq(state.comments,
                    LAMBDA c : c[1] # commentId /\ c[2].parentCommentId # commentId)
    IN IF Len(kept) # Len(state.comments)
       THEN [ok |-> TRUE, state |-> [state EXCEPT !.comments = kept, !.updatedAt = now]]
       ELSE [ok |-> FALSE, state |-> state]

CommentIdsOf(state) == {state.comments[i][1] : i \in 1..Len(state.comments)}

CommentUuidsFor(p) ==
    IF CommentIds \ CommentIdsOf(post[p]) = {} THEN CommentIds
    ELSE CommentIds \ CommentIdsOf(post[p])

PostOutcome(name, p, r) ==
    /\ lastOp' = [op |-> name, who |-> p, ok |-> r.ok, cut |-> FALSE]
    /\ post' = [post EXCEPT ![p] = r.state]
    /\ UNCHANGED <<clock, regVars, userVars, updater, updaterInbox, timelineInbox,
                   ledger, poll, chatVars>>

AddCommentCall(p, cid, userId, content, parentCommentId) ==
    IF post[p].isNull
    THEN PostOutcome("addComment", p, [ok |-> FALSE, state |-> post[p]])
    ELSE PostOutcome("addComment", p,
            addPostComment(post[p], cid, userId, content, parentCommentId, clock))

RemoveCommentCall(p, commentId) ==
    IF post[p].isNull
    THEN PostOutcome("removeComment", p, [ok |-> FALSE, state |-> post[p]])
    ELSE PostOutcome("removeComment", p, removePostComment(post[p], commentId, clock))

AddComment(p) ==
    \E cid \in CommentUuidsFor(p) : \E userId \in CommentAuthors :
    \E content \in Contents : \E parentCommentId \in ParentCommentIds :
        AddCommentCall(p, cid, userId, content, parentCommentId)

RemoveComment(p) == \E commentId \in CommentIds : RemoveCommentCall(p, commentId)

\* ------------------------------------------------ post likes
\* PostAgent.setLike / removeLike / setCommentLike / removeCommentLike
\* (post/index.ts).  A like is the pair <<userId, likeType>> of the code's
\* likes array.

\* setPostLike pushing without filtering the user's former entry out.
setPostLikeNoFilter(state, userId, likeType, now) ==
    [state EXCEPT !.likes = Append(@, <<userId, likeType>>), !.updatedAt = now]

setPostLike(state, userId, likeType, now) ==
    [state EXCEPT
        !.likes = Append(SelectSeq(@, LAMBDA l : l[1] # userId), <<userId, likeType>>),
        !.updatedAt = now]

removePostLike(state, userId, now) ==
    LET kept == SelectSeq(state.likes, LAMBDA l : l[1] # userId)
    IN IF Len(kept) # Len(state.likes)
       THEN [ok |-> TRUE, state |-> [state EXCEPT !.likes = kept, !.updatedAt = now]]
       ELSE [ok |-> FALSE, state |-> state]

\* post.comments.find((c) => c[0] === commentId): the first index, 0 for none.
CommentIndex(comments, commentId) ==
    IF \E i \in 1..Len(comments) : comments[i][1] = commentId
    THEN CHOOSE i \in 1..Len(comments) :
            /\ comments[i][1] = commentId
            /\ \A j \in 1..(i - 1) : comments[j][1] # commentId
    ELSE 0

setPostCommentLike(state, commentId, userId, likeType, now) ==
    LET i == CommentIndex(state.comments, commentId)
    IN IF i # 0
       THEN [ok |-> TRUE,
             state |-> [state EXCEPT
                !.comments[i][2].likes =
                    Append(SelectSeq(@, LAMBDA l : l[1] # userId), <<userId, likeType>>),
                !.comments[i][2].updatedAt = now,
                !.updatedAt = now]]
       ELSE [ok |-> FALSE, state |-> state]

removePostCommentLike(state, commentId, userId, now) ==
    LET i == CommentIndex(state.comments, commentId)
    IN IF i # 0
       THEN LET kept == SelectSeq(state.comments[i][2].likes, LAMBDA l : l[1] # userId)
            IN IF Len(kept) # Len(state.comments[i][2].likes)
               THEN [ok |-> TRUE,
                     state |-> [state EXCEPT !.comments[i][2].likes = kept,
                                             !.comments[i][2].updatedAt = now,
                                             !.updatedAt = now]]
               ELSE [ok |-> FALSE, state |-> state]
       ELSE [ok |-> FALSE, state |-> state]

PostFailed(name, p) == PostOutcome(name, p, [ok |-> FALSE, state |-> post[p]])

SetLikeCall(p, userId, likeType) ==
    IF post[p].isNull THEN PostFailed("setLike", p)
    ELSE PostOutcome("setLike", p,
            [ok |-> TRUE, state |-> setPostLike(post[p], userId, likeType, clock)])

RemoveLikeCall(p, userId) ==
    IF post[p].isNull THEN PostFailed("removeLike", p)
    ELSE PostOutcome("removeLike", p, removePostLike(post[p], userId, clock))

SetCommentLikeCall(p, commentId, userId, likeType) ==
    IF post[p].isNull THEN PostFailed("setCommentLike", p)
    ELSE PostOutcome("setCommentLike", p,
            setPostCommentLike(post[p], commentId, userId, likeType, clock))

RemoveCommentLikeCall(p, commentId, userId) ==
    IF post[p].isNull THEN PostFailed("removeCommentLike", p)
    ELSE PostOutcome("removeCommentLike", p,
            removePostCommentLike(post[p], commentId, userId, clock))

SetLike(p) ==
    \E userId \in LikeUsers : \E likeType \in LikeTypes : SetLikeCall(p, userId, likeType)

RemoveLike(p) == \E userId \in LikeUsers : RemoveLikeCall(p, userId)

SetCommentLike(p) ==
    \E commentId \in CommentIds : \E userId \in LikeUsers : \E likeType \in LikeTypes :
        SetCommentLikeCall(p, commentId, userId, likeType)

RemoveCommentLike(p) ==
    \E commentId \in CommentIds : \E userId \in LikeUsers :
        RemoveCommentLikeCall(p, commentId, userId)

\* addComment as the likes specification issues it: a top-level comment
\* under one of two ids.
LikedCommentIds == {"k1", "k2"}

AddTopComment(p) ==
    \E cid \in LikedCommentIds \ CommentIdsOf(post[p]) :
        AddCommentCall(p, cid, "A", "hi", NoParent)

\* The likes a post and its comments hold.
TotalLikes(state) ==
    Len(state.likes)
    + Cardinality({<<i, j>> \in (1..Len(state.comments)) \X (1..4) :
                        j <= Len(state.comments[i][2].likes)})

\* ------------------------------------------------ snapshots
\* common/snapshot.ts and PostAgent.saveSnapshot / loadSnapshot.  A JavaScript
\* value is a tree of nodes: null, a string, an array of values, or an object
\* with its members in insertion order.  A text is the sequence of the code
\* units of a string, a snapshot a sequence of bytes.

JNull == [k |-> "null", s |-> "", n |-> 0, items |-> <<>>]
JString(s) == [k |-> "string", s |-> s, n |-> 0, items |-> <<>>]
\* The string getCurrentTimestamp built at time n, written "@n" here.
JTimeString(n) == [k |-> "string", s |-> "@", n |-> n, items |-> <<>>]
JArray(items) == [k |-> "array", s |-> "", n |-> 0, items |-> items]
JMember(key, value) == [k |-> "member", s |-> key, n |-> 0, items |-> <<value>>]
JObject(members) == [k |-> "object", s |-> "", n |-> 0, items |-> members]

\* The code units of the strings the states of a post are made of (all ASCII).
CodeUnits ==
    "" :> <<>> @@
    "p1" :> <<112, 49>> @@
    "x" :> <<120>> @@
    "A" :> <<65>> @@
    "B" :> <<66>> @@
    "hi" :> <<104, 105>> @@
    "Like" :> <<76, 105, 107, 101>> @@
    "Dislike" :> <<68, 105, 115, 108, 105, 107, 101>> @@
    "k1" :> <<107, 49>> @@
    "k2" :> <<107, 50>> @@
    "k3" :> <<107, 51>> @@
    "postId" :> <<112, 111, 115, 116, 73, 100>> @@
    "content" :> <<99, 111, 110, 116, 101, 110, 116>> @@
    "createdBy" :> <<99, 114, 101, 97, 116, 101, 100, 66, 121>> @@
    "likes" :> <<108, 105, 107, 101, 115>> @@
    "comments" :> <<99, 111, 109, 109, 101, 110, 116, 115>> @@
    "createdAt" :> <<99, 114, 101, 97, 116, 101, 100, 65, 116>> @@
    "updatedAt" :> <<117, 112, 100, 97, 116, 101, 100, 65, 116>> @@
    "timestamp" :> <<116, 105, 109, 101, 115, 116, 97, 109, 112>> @@
    "commentId" :> <<99, 111, 109, 109, 101, 110, 116, 73, 100>> @@
    "parentCommentId" :> <<112, 97, 114, 101, 110, 116, 67, 111, 109, 109, 101, 110, 116, 73, 100>> @@
    "C" :> <<67>> @@
    "n" :> <<110>> @@
    "created-by" :> <<99, 114, 101, 97, 116, 101, 100, 45, 98, 121>> @@
    "createdby" :> <<99, 114, 101, 97, 116, 101, 100, 98, 121>> @@
    "user-id" :> <<117, 115, 101, 114, 45, 105, 100>> @@
    "userid" :> <<117, 115, 101, 114, 105, 100>> @@
    "name" :> <<110, 97, 109, 101>> @@
    "email" :> <<101, 109, 97, 105, 108>> @@
    "connected-users" :> <<99, 111, 110, 110, 101, 99, 116, 101, 100, 45, 117, 115, 101, 114, 115>> @@
    "connectedusers" :> <<99, 111, 110, 110, 101, 99, 116, 101, 100, 117, 115, 101, 114, 115>> @@
    "participants" :> <<112, 97, 114, 116, 105, 99, 105, 112, 97, 110, 116, 115>>

TimeDigits == 0..9

UnitsOf(node) ==
    IF node.s = "@" THEN <<64, 48 + node.n>> ELSE CodeUnits[node.s]

IsTimeUnits(units) ==
    Len(units) = 2 /\ units[1] = 64 /\ (units[2] - 48) \in TimeDigits

IsString(units) ==
    IsTimeUnits(units) \/ \E s \in DOMAIN CodeUnits : CodeUnits[s] = units

StringOf(units) ==
    IF IsTimeUnits(units) THEN JTimeString(units[2] - 48)
    ELSE JString(CHOOSE s \in DOMAIN CodeUnits : CodeUnits[s] = units)

\* ---- JSON.stringify(value, null, 2)

Spaces(n) == [i \in 1..n |-> 32]
Quoted(units) == <<34>> \o units \o <<34>>

RECURSIVE stringify(_, _)
RECURSIVE stringifyItems(_, _, _)

\* The items of an array or the members of an object from the i-th on, one
\* per line at depth d, separated by commas.
stringifyItems(items, i, d) ==
    IF i > Len(items) THEN <<>>
    ELSE <<10>> \o Spaces(2 * d) \o stringify(items[i], d)
         \o (IF i < Len(items) THEN <<44>> ELSE <<>>)
         \o stringifyItems(items, i + 1, d)

stringify(value, d) ==
    CASE value.k = "null" -> <<110, 117, 108, 108>>
      [] value.k = "string" -> Quoted(UnitsOf(value))
      [] value.k = "member" ->
            Quoted(CodeUnits[value.s]) \o <<58, 32>> \o stringify(value.items[1], d)
      [] value.k = "array" ->
            IF value.items = <<>> THEN <<91, 93>>
            ELSE <<91>> \o stringifyItems(value.items, 1, d + 1)
                 \o <<10>> \o Spaces(2 * d) \o <<93>>
      [] value.k = "object" ->
            IF value.items = <<>> THEN <<123, 125>>
            ELSE <<123>> \o stringifyItems(value.items, 1, d + 1)
                 \o <<10>> \o Spaces(2 * d) \o <<125>>

\* ---- TextEncoder.encode / TextDecoder.decode: UTF-8, which gives a code
\* unit below 128 one byte of the same value (the texts here hold no other).
TextEncode(text) == [i \in 1..Len(text) |-> text[i]]
TextDecode(bytes) == [i \in 1..Len(bytes) |-> bytes[i]]

\* ---- JSON.parse

Whitespace == {32, 10, 13, 9}

\* The first position from i on that holds no whitespace (Len(text) + 1 when
\* there is none).
RECURSIVE SkipWhitespace(_, _)
SkipWhitespace(text, i) ==
    IF i <= Len(text) /\ text[i] \in Whitespace
    THEN SkipWhitespace(text, i + 1)
    ELSE i

\* The first position from i on that holds a quote (Len(text) + 1 when
\* there is none).
RECURSIVE NextQuote(_, _)
NextQuote(text, i) ==
    IF i <= Len(text) /\ text[i] # 34
    THEN NextQuote(text, i + 1)
    ELSE i

ParseError == [ok |-> FALSE, value |-> JNull, next |-> 0]
Parsed(value, next) == [ok |-> TRUE, value |-> value, next |-> next]

At(text, i, unit) == i <= Len(text) /\ text[i] = unit

\* A string literal that opens at position i (the model's strings need no
\* escape): its units and the position after the closing quote.
ParseString(text, i) ==
    IF ~At(text, i, 34) THEN ParseError
    ELSE CHOOSE r \in
           {IF e <= Len(text) /\ IsString(SubSeq(text, i + 1, e - 1))
            THEN Parsed(StringOf(SubSeq(text, i + 1, e - 1)), e + 1)
            ELSE ParseError : e \in {NextQuote(text, i + 1)}} : TRUE

\* Each intermediate result is bound once, as the element of a singleton.
RECURSIVE ParseValue(_, _)
RECURSIVE ParseItems(_, _, _, _)
RECURSIVE ParseMember(_, _)

\* A member of an object that opens at position k: "key": value.
ParseMember(text, k) ==
    CHOOSE r \in {IF ~key.ok \/ key.value.s = "@" THEN ParseError
                  ELSE CHOOSE m \in
                         {IF At(text, c, 58)
                          THEN CHOOSE w \in
                                 {IF v.ok THEN Parsed(JMember(key.value.s, v.value), v.next)
                                  ELSE ParseError : v \in {ParseValue(text, c + 1)}} : TRUE
                          ELSE ParseError :
                            c \in {SkipWhitespace(text, key.next)}} : TRUE :
                     key \in {ParseString(text, k)}} : TRUE

\* The rest of an array (close = 93) or of an object (close = 125) whose
\* items so far are acc, read from position i: the close, or a comma (unless
\* acc is empty) and one more item.
ParseItems(text, i, acc, close) ==
    CHOOSE r \in
      {IF At(text, j, close)
       THEN Parsed(IF close = 93 THEN JArray(acc) ELSE JObject(acc), j + 1)
       ELSE IF acc # <<>> /\ ~At(text, j, 44) THEN ParseError
       ELSE CHOOSE q \in
              {IF item.ok
               THEN ParseItems(text, item.next, Append(acc, item.value), close)
               ELSE ParseError :
                 item \in {IF close = 93
                           THEN ParseValue(text, IF acc # <<>> THEN j + 1 ELSE j)
                           ELSE ParseMember(text,
                                  SkipWhitespace(text, IF acc # <<>> THEN j + 1 ELSE j))}} :
              TRUE :
         j \in {SkipWhitespace(text, i)}} : TRUE

ParseValue(text, i) ==
    CHOOSE r \in
      {CASE At(text, j, 110) ->
              IF j + 3 <= Len(text) /\ SubSeq(text, j, j + 3) = <<110, 117, 108, 108>>
              THEN Parsed(JNull, j + 4) ELSE ParseError
         [] At(text, j, 34) -> ParseString(text, j)
         [] At(text, j, 91) -> ParseItems(text, j + 1, <<>>, 93)
         [] At(text, j, 123) -> ParseItems(text, j + 1, <<>>, 125)
         [] OTHER -> ParseError :
         j \in {SkipWhitespace(text, i)}} : TRUE

\* JSON.parse(text): one value and nothing but whitespace after it; ok is
\* FALSE where JSON.parse throws.
JsonParse(text) ==
    CHOOSE p \in {IF r.ok /\ SkipWhitespace(text, r.next) = Len(text) + 1
                  THEN r ELSE ParseError : r \in {ParseValue(text, 1)}} : TRUE

\* ---- common/snapshot.ts

SERIALIZATION_VERSION_V1 == 1

\* serialize without the version byte.
serializeUntagged(value) == TextEncode(stringify(value, 0))

serialize(value) ==
    LET jsonData == stringify(value, 0)
        dataBytes == TextEncode(jsonData)
    IN  <<SERIALIZATION_VERSION_V1>> \o dataBytes

\* deserialize without the test of the version byte.
deserializeAnyVersion(bytes) ==
    IF Len(bytes) = 0 THEN ParseError
    ELSE JsonParse(TextDecode(SubSeq(bytes, 2, Len(bytes))))

\* ok is FALSE where deserialize throws.
deserialize(bytes) ==
    IF Len(bytes) = 0 THEN ParseError
    ELSE IF bytes[1] = SERIALIZATION_VERSION_V1
         THEN JsonParse(TextDecode(SubSeq(bytes, 2, Len(bytes))))
         ELSE ParseError

\* ---- the state of a PostAgent as a JavaScript value, and back

JLikes(likes) ==
    JArray([i \in 1..Len(likes) |->
              JArray(<<JString(likes[i][1]), JString(likes[i][2])>>)])

JTimestamp(n) == JObject(<<JMember("timestamp", JTimeString(n))>>)

JComment(c) ==
    JObject(<<JMember("commentId", JString(c.commentId)),
              JMember("parentCommentId",
                      IF c.parentCommentId = NoParent THEN JNull
                      ELSE JString(c.parentCommentId)),
              JMember("content", JString(c.content)),
              JMember("likes", JLikes(c.likes)),
              JMember("createdBy", JString(c.createdBy)),
              JMember("createdAt", JTimestamp(c.createdAt)),
              JMember("updatedAt", JTimestamp(c.updatedAt))>>)

\* this.state of PostAgent: null, or the Post that initPostState built.
JPost(state) ==
    IF state.isNull THEN JNull
    ELSE JObject(<<JMember("postId", JString(state.postId)),
                   JMember("content", JString(state.content)),
                   JMember("createdBy", JString(state.createdBy)),
                   JMember("likes", JLikes(state.likes)),
                   JMember("comments",
                           JArray([i \in 1..Len(state.comments) |->
                                     JArray(<<JString(state.comments[i][1]),
                                              JComment(state.comments[i][2])>>)])),
                   JMember("createdAt", JTimestamp(state.createdAt)),
                   JMember("updatedAt", JTimestamp(state.updatedAt))>>)

\* value.key
Get(value, key) ==
    (CHOOSE m \in Range(value.items) : m.s = key).items[1]

LikesOf(value) ==
    [i \in 1..Len(value.items) |->
        <<value.items[i].items[1].s, value.items[i].items[2].s>>]

TimeOf(value) == Get(value, "timestamp").n

CommentOf(value) ==
    [commentId |-> Get(value, "commentId").s,
     parentCommentId |-> IF Get(value, "parentCommentId").k = "null" THEN NoParent
                         ELSE Get(value, "parentCommentId").s,
     content |-> Get(value, "content").s,
     likes |-> LikesOf(Get(value, "likes")),
     createdBy |-> Get(value, "createdBy").s,
     createdAt |-> TimeOf(Get(value, "createdAt")),
     updatedAt |-> TimeOf(Get(value, "updatedAt"))]

PostOf(value) ==
    IF value.k = "null" THEN NullPost
    ELSE [isNull |-> FALSE,
          postId |-> Get(value, "postId").s,
          content |-> Get(value, "content").s,
          createdBy |-> Get(value, "createdBy").s,
          likes |-> LikesOf(Get(value, "likes")),
          comments |-> [i \in 1..Len(Get(value, "comments").items) |->
                          <<Get(value, "comments").items[i].items[1].s,
                            CommentOf(Get(value, "comments").items[i].items[2])>>],
          createdAt |-> TimeOf(Get(value, "createdAt")),
          updatedAt |-> TimeOf(Get(value, "updatedAt"))]

\* ---- PostAgent.saveSnapshot / loadSnapshot

saveSnapshot(state) == serialize(JPost(state))

\* The state after loadSnapshot(bytes) on an agent whose state is state, and
\* whether it returned (ok) or threw.
loadSnapshot(state, bytes) ==
    IF Len(bytes) > 0
    THEN CHOOSE r \in {IF raw.ok THEN [ok |-> TRUE, state |-> PostOf(raw.value)]
                       ELSE [ok |-> FALSE, state |-> state] :
                          raw \in {deserialize(bytes)}} : TRUE
    ELSE [ok |-> TRUE, state |-> state]

\* The agent of post p is started anew and loads the snapshot it saved last.
Recover(p) ==
    PostOutcome("loadSnapshot", p, loadSnapshot(NullPost, saveSnapshot(post[p])))

\* A new agent of post p is handed an empty snapshot.
LoadEmpty(p) ==
    /\ post[p].isNull
    /\ PostOutcome("loadEmpty", p, loadSnapshot(post[p], <<>>))

\* Bytes that are no version tag, and the snapshots they are put in front
\* of: a snapshot of an agent without state and one of a post by B.
OtherVersions == {0, 2}

TaggedWith(version, snapshot) == <<version>> \o Tail(snapshot)

ForeignSnapshots ==
    {saveSnapshot(NullPost), saveSnapshot(InitializedPost("p1", "B", "x", 0))}

\* The agent of post p is handed a snapshot of another version.
LoadOtherVersion(p) ==
    \E version \in OtherVersions : \E snapshot \in ForeignSnapshots :
        PostOutcome("loadOtherVersion", p,
                    loadSnapshot(post[p], TaggedWith(version, snapshot)))

\* ------------------------------------------------ queries
\* common/query.ts: a text is the sequence of the code units of a string.

Star == <<42>>

\* String.prototype.toLowerCase on the letters A..Z.
ToLowerCase(text) ==
    [i \in 1..Len(text) |-> IF text[i] \in 65..90 THEN text[i] + 32 ELSE text[i]]

\* text.includes(part)
IncludesText(text, part) ==
    \E i \in 0..(Len(text) - Len(part)) : SubSeq(text, i + 1, i + Len(part)) = part

\* An optional text (string | null): null, or the text.
NoText == [isNull |-> TRUE, text |-> <<>>]
SomeText(text) == [isNull |-> FALSE, text |-> text]

optTextMatches(opt, query) ==
    query = Star \/ (~opt.isNull /\ IncludesText(ToLowerCase(opt.text), ToLowerCase(query)))

optTextExactMatches(opt, query) ==
    query = Star \/ (~opt.isNull /\ opt.text = query)

textMatches(text, query) ==
    query = Star \/ IncludesText(ToLowerCase(text), ToLowerCase(query))

textExactMatches(text, query) ==
    query = Star \/ text = query

\* String.prototype.trim
RECURSIVE Trim(_)
Trim(text) ==
    IF text = <<>> THEN text
    ELSE IF Head(text) \in Whitespace THEN Trim(Tail(text))
    ELSE IF text[Len(text)] \in Whitespace THEN Trim(SubSeq(text, 1, Len(text) - 1))
    ELSE text

\* tokenize from the i-th code unit on, with the loop's tokens, current and
\* inQuotes.
RECURSIVE tokenizeFrom(_, _, _, _, _)
tokenizeFrom(query, i, tokens, current, inQuotes) ==
    IF i > Len(query)
    THEN IF Len(current) > 0 THEN Append(tokens, Trim(current)) ELSE tokens
    ELSE IF query[i] = 32 /\ ~inQuotes
         THEN IF Len(current) > 0
              THEN tokenizeFrom(query, i + 1, Append(tokens, Trim(current)), <<>>, inQuotes)
              ELSE tokenizeFrom(query, i + 1, tokens, current, inQuotes)
    ELSE IF query[i] = 34
         THEN tokenizeFrom(query, i + 1, tokens, current, ~inQuotes)
    ELSE tokenizeFrom(query, i + 1, tokens, Append(current, query[i]), inQuotes)

tokenize(query) == tokenizeFrom(query, 1, <<>>, <<>>, FALSE)

\* part.indexOf(':') + 1: the first position of a colon, 0 when there is none.
IndexOfColon(part) ==
    IF \E i \in 1..Len(part) : part[i] = 58
    THEN CHOOSE i \in 1..Len(part) : part[i] = 58 /\ \A h \in 1..(i - 1) : part[h] # 58
    ELSE 0

\* A token as the field filter [field, value] the constructor pushes.
FilterOf(part) ==
    <<ToLowerCase(SubSeq(part, 1, IndexOfColon(part) - 1)),
      SubSeq(part, IndexOfColon(part) + 1, Len(part))>>

\* new Query(query)
QueryOf(query) ==
    LET tokens == tokenize(query)
        filters == SelectSeq(tokens, LAMBDA part : IndexOfColon(part) # 0)
    IN  [terms |-> SelectSeq(tokens, LAMBDA part : IndexOfColon(part) = 0),
         fieldFilters |-> [i \in 1..Len(filters) |-> FilterOf(filters[i])]]

Some(s, Test(_)) == \E i \in 1..Len(s) : Test(s[i])
Every(s, Test(_)) == \A i \in 1..Len(s) : Test(s[i])

\* ---- postMatchesQuery (post/index.ts)

PostFilterMatches(state, field, value) ==
    CASE ToLowerCase(field) \in {CodeUnits["created-by"], CodeUnits["createdby"]} ->
            textExactMatches(CodeUnits[state.createdBy], value)
      [] ToLowerCase(field) = CodeUnits["content"] ->
            textMatches(CodeUnits[state.content], value)
      [] ToLowerCase(field) = CodeUnits["comments"] ->
            Some(state.comments, LAMBDA c : textMatches(CodeUnits[c[2].content], value))
      [] OTHER -> FALSE

PostTermMatches(state, term) ==
    \/ textMatches(CodeUnits[state.content], term)
    \/ Some(state.comments, LAMBDA c : textMatches(CodeUnits[c[2].content], term))

postMatchesQuery(state, query) ==
    /\ Every(query.fieldFilters, LAMBDA f : PostFilterMatches(state, f[1], f[2]))
    /\ \/ Len(query.terms) = 0
       \/ Some(query.terms, LAMBDA term : PostTermMatches(state, term))

\* ---- UserQueryMatcher.matches (user/index.ts); the model's users have no
\* email (setEmail is not modelled), so user.email is null.

UserName(state) ==
    IF state.name = "null" THEN NoText ELSE SomeText(CodeUnits[state.name])

UserFilterMatches(state, field, value) ==
    CASE ToLowerCase(field) \in {CodeUnits["user-id"], CodeUnits["userid"]} ->
            textExactMatches(CodeUnits[state.userId], value)
      [] ToLowerCase(field) = CodeUnits["name"] -> optTextMatches(UserName(state), value)
      [] ToLowerCase(field) = CodeUnits["email"] -> optTextMatches(NoText, value)
      [] ToLowerCase(field) \in {CodeUnits["connected-users"], CodeUnits["connectedusers"]} ->
            Some(state.connectedUsers, LAMBDA u : textExactMatches(CodeUnits[u.userId], value))
      [] OTHER -> FALSE

UserTermMatches(state, term) ==
    \/ textExactMatches(CodeUnits[state.userId], term)
    \/ optTextMatches(UserName(state), term)
    \/ optTextMatches(NoText, term)

userMatchesQuery(state, query) ==
    /\ Every(query.fieldFilters, LAMBDA f : UserFilterMatches(state, f[1], f[2]))
    /\ \/ Len(query.terms) = 0
       \/ Some(query.terms, LAMBDA term : UserTermMatches(state, term))

\* ------------------------------------------------ registries: specification

\* The registry instances the registry specification drives.  Every registry is
\* an actor of its own, whose state depends on its own messages only.
RegistryOwners == {"A"}

\* The Ref lists a postsUpdated message can carry: the fan-out builds them from a
\* queue keyed by post id, so the post ids of one message are pairwise distinct,
\* and gives all Refs of a message the same author and connection type.
\* Every timestamp was read from the clock before the message is handled.
RefsOfPosts(ps, ct) ==
    {[i \in 1..Len(ps) |->
        [postId |-> ps[i], createdBy |-> "B", createdByConnectionType |-> ct,
         createdAt |-> 0, updatedAt |-> at[i]]] :
            at \in [1..Len(ps) -> 0..clock]}

PostIdLists ==
    {ps \in UNION {[1..n -> PostIds] : n \in 1..MaxRefs} :
        \A i, j \in 1..Len(ps) : i # j => ps[i] # ps[j]}

\* The participant lists handed to createChat in the registry specification.
RegParticipantLists == {<<"B">>}

Idle == [op |-> "none", who |-> "", ok |-> TRUE, cut |-> FALSE]

\* The clock advances.
Tick ==
    /\ clock < MaxClock
    /\ clock' = clock + 1
    /\ UNCHANGED <<regVars, userVars, fanVars, poll, chatVars, lastOp>>

\* UserTimelineAgent.postsUpdated delivered to the registry of u.
RegPostsUpdatedCall(u, refs) ==
    LET before == TimelineGetState(timeline[u], u, clock).posts
        ids == {r.postId : r \in Range(refs)}
        kept == SelectSeq(before, LAMBDA p : p.postId \notin ids)
    IN  /\ lastOp' = [op |-> "postsUpdated", who |-> u, ok |-> TRUE,
                      cut |-> Len(kept) + Len(refs) > POSTS_MAX_COUNT]
        /\ timeline' = [timeline EXCEPT
                ![u] = TimelinePostsUpdated(timeline[u], u, refs, clock)]
        /\ UNCHANGED clock
        /\ UNCHANGED <<userChats, usedChatIds, chatInbox, timelineInbox>>
        /\ UNCHANGED <<userVars, post, updater, updaterInbox, ledger, poll, chatVars>>

\* The Ref lists the fan-out sends to the registry specification.
RegRefLists ==
    UNION {RefsOfPosts(ps, ct) : ps \in PostIdLists, ct \in {NoConnection, Friend}}

RegPostsUpdated(u) == \E refs \in RegRefLists : RegPostsUpdatedCall(u, refs)

\* UserChatsAgent.createChat(participantsIds) at the registry of u.
CreateChatCall(u, chatId, participantsIds) ==
    LET s == ChatsGetState(userChats[u], u, clock)
        chatRef == ChatRef(chatId, s.userId, clock, clock)
    IN  /\ userChats' = [userChats EXCEPT
                ![u] = [s EXCEPT !.updatedAt = clock,
                                 !.chats = ChatsPush(s.chats, chatRef)]]
        /\ usedChatIds' = usedChatIds \cup {chatId}
        /\ chatInbox' = [chatInbox EXCEPT ![chatId] = Append(@,
                [op |-> "initChat", participantsIds |-> participantsIds,
                 createdBy |-> s.userId, createdAt |-> clock])]
        /\ UNCHANGED clock
        /\ lastOp' = [op |-> "createChat", who |-> u, ok |-> TRUE,
                      cut |-> Len(s.chats) + 1 > CHATS_MAX_COUNT]
        /\ UNCHANGED <<timeline, timelineInbox>>
        /\ UNCHANGED <<userVars, post, updater, updaterInbox, ledger, poll, chatVars>>

\* createChat with a chat id crypto.randomUUID() has not produced before.
CreateChat(u) ==
    \E chatId \in ChatIds \ usedChatIds :
    \E participantsIds \in RegParticipantLists :
        CreateChatCall(u, chatId, participantsIds)

\* UserChatsAgent.chatUpdated(chatId, updatedAt) at the registry of u.
ChatUpdatedCall(u, chatId, updatedAt) ==
    LET s == ChatsGetState(userChats[u], u, clock)
        chatIdx == ChatIndex(s.chats, chatId)
    IN  /\ lastOp' = [op |-> "chatUpdated", who |-> u, ok |-> chatIdx # 0,
                      cut |-> FALSE]
        /\ UNCHANGED clock
        /\ userChats' = [userChats EXCEPT ![u] =
                ChatsChatUpdated(userChats[u], u, chatId, updatedAt, clock)]
        /\ UNCHANGED <<timeline, timelineInbox, chatInbox, usedChatIds>>
        /\ UNCHANGED <<userVars, post, updater, updaterInbox, ledger, poll, chatVars>>

\* A chatUpdated trigger is delivered to the registry of u.
ChatUpdated(u) ==
    \E chatId \in ChatIds : \E updatedAt \in 0..clock :
        ChatUpdatedCall(u, chatId, updatedAt)

\* UserChatsAgent.addChat(chatId, createdBy, createdAt) at the registry of u.
AddChatCall(u, chatId, createdBy, createdAt) ==
    LET s == ChatsGetState(userChats[u], u, clock)
        found == ChatIndex(s.chats, chatId) # 0
    IN  /\ lastOp' = [op |-> "addChat", who |-> u, ok |-> TRUE,
                      cut |-> ~found /\ Len(s.chats) + 1 > CHATS_MAX_COUNT]
        /\ UNCHANGED clock
        /\ usedChatIds' = usedChatIds \cup {chatId}
        /\ userChats' = [userChats EXCEPT ![u] =
                ChatsAddChat(userChats[u], u, chatId, createdBy, createdAt, clock)]
        /\ UNCHANGED <<timeline, timelineInbox, chatInbox>>
        /\ UNCHANGED <<userVars, post, updater, updaterInbox, ledger, poll, chatVars>>

\* An addChat trigger is delivered to the registry of u.
AddChat(u) ==
    \E chatId \in ChatIds : \E createdBy \in {"B"} : \E createdAt \in {0} :
        AddChatCall(u, chatId, createdBy, createdAt)

\* UserChatsAgent.removeChat(chatId) delivered to the registry of u.
RemoveChat(u) ==
    \E chatId \in ChatIds :
        LET s == ChatsGetState(userChats[u], u, clock)
        IN  /\ userChats' = [userChats EXCEPT ![u] =
                    [s EXCEPT !.chats = ChatsRemove(s.chats, chatId),
                              !.updatedAt = clock]]
            /\ UNCHANGED clock
            /\ lastOp' = [op |-> "removeChat", who |-> u, ok |-> TRUE, cut |-> FALSE]
            /\ UNCHANGED <<timeline, timelineInbox, chatInbox, usedChatIds>>
            /\ UNCHANGED <<userVars, post, updater, updaterInbox, ledger, poll, chatVars>>

\* UserTimelineAgent.getUpdates(updatesSince) at the registry of u.
RegTimelineGetUpdates(u) ==
    \E since \in Times :
        /\ lastOp' = [op |-> "getUpdates", who |-> u, ok |-> TRUE, cut |-> FALSE,
                      registry |-> "timeline", since |-> since,
                      result |-> TimelineGetUpdates(timeline[u], since)]
        /\ UNCHANGED <<clock, regVars, timelineInbox, userVars, post, updater,
                       updaterInbox, ledger, poll, chatVars>>

\* UserChatsAgent.getUpdates(updatesSince) at the registry of u.
RegChatsGetUpdates(u) ==
    \E since \in Times :
        /\ lastOp' = [op |-> "getUpdates", who |-> u, ok |-> TRUE, cut |-> FALSE,
                      registry |-> "chats", since |-> since,
                      result |-> ChatsGetUpdates(userChats[u], since)]
        /\ UNCHANGED <<clock, regVars, timelineInbox, userVars, post, updater,
                       updaterInbox, ledger, poll, chatVars>>

InitRegistries ==
    /\ timeline = [u \in UserIds |-> NullTimeline]
    /\ timelineInbox = [u \in UserIds |-> <<>>]
    /\ userChats = [u \in UserIds |-> NullUserChats]
    /\ usedChatIds = {}
    /\ chatInbox = [c \in ChatIds |-> <<>>]

InitFanIdle ==
    /\ post = [p \in PostIds |-> NullPost]
    /\ updater = [u \in UserIds |-> NullPostUpdates]
    /\ updaterInbox = [u \in UserIds |-> <<>>]
    /\ ledger = [u \in AllUpdates |-> 0]

InitPollIdle == poll = 0

RegInit ==
    /\ clock = 0
    /\ InitRegistries
    /\ InitUsers
    /\ InitFanIdle
    /\ InitPollIdle
    /\ InitChatIdle
    /\ lastOp = Idle

\* The Timeline Registry and the Chat Registry of a user share no state and
\* exchange no message, so a behaviour drives one of the two.
RegNext ==
    \/ Tick
    \/ \E u \in RegistryOwners :
        \/ userChats[u].isNull /\ RegPostsUpdated(u)
        \/ timeline[u].isNull /\ CreateChat(u)
        \/ timeline[u].isNull /\ ChatUpdated(u)
        \/ timeline[u].isNull /\ AddChat(u)
        \/ timeline[u].isNull /\ RemoveChat(u)

SpecReg == RegInit /\ [][RegNext]_vars

\* The registries with their readers.  getUpdates changes no registry, so what
\* can follow it can follow the state it read; behaviours go on from that one.
RegReadNext ==
    \/ lastOp.op # "getUpdates" /\ RegNext
    \/ \E u \in RegistryOwners : userChats[u].isNull /\ RegTimelineGetUpdates(u)
    \/ \E u \in RegistryOwners : timeline[u].isNull /\ RegChatsGetUpdates(u)

SpecRegRead == RegInit /\ [][RegReadNext]_vars

\* ----------------------------------------------- connections: specification

UserInit ==
    /\ clock = 0
    /\ InitRegistries
    /\ InitUsers
    /\ InitFanIdle
    /\ InitPollIdle
    /\ InitChatIdle
    /\ lastOp = Idle

UserNext ==
    \/ Tick
    \/ \E u \in ConnUsers : ConnectUser(u)
    \/ \E u \in ConnUsers : DisconnectUser(u)
    \/ \E u \in ConnUsers : UserDeliver(u)

SpecUser == UserInit /\ [][UserNext]_vars

\* The scenario connectUser(B, K) at A, then disconnectUser(B, K) at A, from two
\* users with no connection, the echoes being delivered at any time.
ConnDiscScripts ==
    {c \in {<<[self |-> a, op |-> "connectUser", userId |-> b, connectionType |-> k],
              [self |-> a, op |-> "disconnectUser", userId |-> b, connectionType |-> k]>> :
                a \in ConnUsers, b \in ConnUsers, k \in UserConnectionType} :
        c[1].self # c[1].userId}

ConnDiscInit ==
    /\ clock = 0
    /\ InitRegistries
    /\ users = [u \in UserIds |-> NullUser]
    /\ userInbox = [u \in UserIds |-> <<>>]
    /\ cmdCount = 0
    /\ script \in ConnDiscScripts
    /\ InitFanIdle
    /\ InitPollIdle
    /\ InitChatIdle
    /\ lastOp = Idle

ConnDiscNext ==
    \/ Tick
    \/ ScriptStep
    \/ \E u \in ConnUsers : UserDeliver(u)

\* Both commands are issued and every trigger is eventually invoked (the
\* runtime's durable invocation queue).
SpecConnDisc ==
    /\ ConnDiscInit
    /\ [][ConnDiscNext]_vars
    /\ WF_vars(ScriptStep)
    /\ \A u \in ConnUsers : WF_vars(UserDeliver(u))

\* --------------------------------------------------- fan-out: specification

ConnectedUser(userId, connectionTypes) ==
    [userId |-> userId, connectionTypes |-> connectionTypes,
     createdAt |-> 0, updatedAt |-> 0]

\* The states of an author's User actor the fan-out specification starts from:
\* no state yet, no connection, two connected users of whom one has two
\* connection types.
FanAuthorStates ==
    {NullUser} \cup
    {[UserGetState(NullUser, "A", 0) EXCEPT !.connectedUsers = cs] :
        cs \in {<<>>,
                <<ConnectedUser("B", <<Follower, Friend>>),
                  ConnectedUser("C", <<Following>>)>>}}

FanInit ==
    /\ clock = 0
    /\ InitRegistries
    /\ users \in {[u \in UserIds |-> IF u = "A" THEN a ELSE NullUser] :
                    a \in FanAuthorStates}
    /\ userInbox = [u \in UserIds |-> <<>>]
    /\ cmdCount = 0
    /\ script = <<>>
    /\ InitFanIdle
    /\ InitPollIdle
    /\ InitChatIdle
    /\ lastOp = Idle

\* The Fan-out Coordinator with the Post actors that feed it; timelineInbox
\* records the triggers it sent.
FanNext ==
    \/ Tick
    \/ \E p \in FanPostIds : InitPost(p)
    \/ \E a \in FanAuthors : UpdaterDeliver(a)
    \/ \E a \in FanAuthors : PostUpdated(a)
    \/ \E a \in FanAuthors : ProcessPostsUpdates(a)
    \/ \E a \in FanAuthors : SetName(a)

SpecFan == FanInit /\ [][FanNext]_vars

\* Posts are initialized, the coordinator distributes them and the Timeline
\* Registries handle the triggers; every trigger is eventually invoked.
FanTimelineNext ==
    \/ Tick
    \/ \E p \in FanPostIds : InitPost(p)
    \/ \E a \in FanAuthors : UpdaterDeliver(a)
    \/ \E u \in UserIds : TimelineDeliver(u)
    \/ \E a \in FanAuthors : SetName(a)

SpecFanTimeline ==
    /\ FanInit
    /\ [][FanTimelineNext]_vars
    /\ \A a \in FanAuthors : WF_vars(UpdaterDeliver(a))
    /\ \A u \in UserIds : WF_vars(TimelineDeliver(u))

\* A Ref list is sorted by updatedAt, latest first.
SortedDesc(refs) ==
    \A i \in 1..(Len(refs) - 1) : refs[i].updatedAt >= refs[i + 1].updatedAt

Records(a, b, k) ==
    \E i \in 1..Len(users[a].connectedUsers) :
        /\ users[a].connectedUsers[i].userId = b
        /\ Includes(users[a].connectedUsers[i].connectionTypes, k)

\* No connectUser / disconnectUser message is in flight.
NoUserMessageInFlight == \A u \in UserIds : userInbox[u] = <<>>

\* C2: whenever no connectUser / disconnectUser message is in flight, A records
\* kind K towards B exactly when B records the opposite kind towards A.
C2_ConnectionGraphSymmetric ==
    NoUserMessageInFlight =>
        \A a \in UserIds : \A b \in UserIds \ {a} : \A k \in UserConnectionType :
            Records(a, b, k) <=>
                Records(b, a, CASE k = Follower -> Following
                                [] k = Following -> Follower
                                [] k = Friend -> Friend)

\* Nothing is in flight after commands of both kinds: A follows B, B is followed
\* by A, and the last message handled was a disconnectUser echo.
C2_Witness ==
    /\ NoUserMessageInFlight
    /\ cmdCount >= 2
    /\ Records("A", "B", Following)
    /\ Records("B", "A", Follower)
    /\ lastOp.op = "disconnectUser"

\* No user holds a connection record.
NoConnectionRecord == \A u \in UserIds : users[u].connectedUsers = <<>>

\* C3: connectUser(B, K) at A followed by disconnectUser(B, K) at A eventually
\* leaves no connection record on either side, for good.
C3_ConnectThenDisconnectLeavesNothing == <>[]NoConnectionRecord

\* ------------------------------------------------------------- long poll

\* The latest reading of Date.now() the long-poll specification reaches.
MaxPollTime == 5

\* The most fetches the long-poll specification lets one loop make.
MaxFetches == 5

\* The iterWaitTime and maxWaitTime values of the long-poll specification.
PollIterWaitTimes == {1, 2}

PollMaxWaitTimes == {2, 4}

\* What getUpdatesFn resolves to: undefined, or a list.
Absent == [defined |-> FALSE, items |-> <<>>]

List(items) == [defined |-> TRUE, items |-> items]

FetchResults == {Absent, List(<<>>), List(<<"X">>), List(<<"X", "Y">>)}

\* A variant of PollIteration that treats undefined as an empty list.
PollIterationAbsentRetries(res, elapsed, maxWaitTime) ==
    IF res.defined /\ Len(res.items) > 0
    THEN [result |-> res, done |-> TRUE]
    ELSE [result |-> res, done |-> elapsed >= maxWaitTime]

\* A variant of PollIteration that returns a non-empty list only once
\* maxWaitTime has elapsed.
PollIterationListWaits(res, elapsed, maxWaitTime) ==
    IF res.defined
    THEN [result |-> res, done |-> elapsed >= maxWaitTime]
    ELSE [result |-> Absent, done |-> TRUE]

\* A variant of PollIteration that returns an empty list at once.
PollIterationEmptyReturns(res, elapsed, maxWaitTime) ==
    IF res.defined
    THEN [result |-> res, done |-> TRUE]
    ELSE [result |-> Absent, done |-> TRUE]

\* A variant of PollIteration that never gives up on empty lists.
PollIterationNoTimeout(res, elapsed, maxWaitTime) ==
    IF res.defined
    THEN IF Len(res.items) > 0
         THEN [result |-> res, done |-> TRUE]
         ELSE [result |-> List(<<>>), done |-> FALSE]
    ELSE [result |-> Absent, done |-> TRUE]

\* The body of the loop after getUpdatesFn resolved to res, elapsed being
\* Date.now() - startTime then: the result and done it assigns.
PollIteration(res, elapsed, maxWaitTime) ==
    IF res.defined
    THEN IF Len(res.items) > 0
         THEN [result |-> res, done |-> TRUE]
         ELSE [result |-> List(<<>>), done |-> elapsed >= maxWaitTime]
    ELSE [result |-> Absent, done |-> TRUE]

\* pollForUpdates up to the loop: startTime is read, result is undefined.
PollStarted(iterWaitTime, maxWaitTime) ==
    [pc |-> "loop", now |-> 0, startTime |-> 0,
     iterWaitTime |-> iterWaitTime, maxWaitTime |-> maxWaitTime,
     wakeAt |-> 0, result |-> Absent, fetched |-> <<>>, sleeps |-> 0]

\* Time passes while the loop awaits the fetch or the timer.
PollTime ==
    /\ poll.pc \in {"fetching", "sleeping"}
    /\ poll.now < MaxPollTime
    /\ poll' = [poll EXCEPT !.now = @ + 1]
    /\ UNCHANGED <<clock, regVars, userVars, fanVars, chatVars, lastOp>>

\* while (!done): the loop calls getUpdatesFn.
PollFetch ==
    /\ poll.pc = "loop"
    /\ Len(poll.fetched) < MaxFetches
    /\ poll' = [poll EXCEPT !.pc = "fetching"]
    /\ UNCHANGED <<clock, regVars, userVars, fanVars, chatVars, lastOp>>

\* getUpdatesFn resolves; the loop ends, or starts the timer.
PollFetched ==
    /\ poll.pc = "fetching"
    /\ \E res \in FetchResults :
        LET it == PollIteration(res, poll.now - poll.startTime, poll.maxWaitTime)
        IN  poll' = [poll EXCEPT
                        !.fetched = Append(@, res),
                        !.result = it.result,
                        !.pc = IF it.done THEN "returned" ELSE "sleeping",
                        !.wakeAt = IF it.done THEN @ ELSE poll.now + poll.iterWaitTime,
                        !.sleeps = IF it.done THEN @ ELSE @ + 1]
    /\ UNCHANGED <<clock, regVars, userVars, fanVars, chatVars, lastOp>>

\* The timer fires after iterWaitTime at the earliest.
PollWake ==
    /\ poll.pc = "sleeping"
    /\ poll.now >= poll.wakeAt
    /\ poll' = [poll EXCEPT !.pc = "loop"]
    /\ UNCHANGED <<clock, regVars, userVars, fanVars, chatVars, lastOp>>

PollInit ==
    /\ clock = 0
    /\ InitRegistries
    /\ InitUsers
    /\ InitFanIdle
    /\ poll \in {PollStarted(w, m) : w \in PollIterWaitTimes, m \in PollMaxWaitTimes}
    /\ InitChatIdle
    /\ lastOp = Idle

PollNext ==
    \/ PollTime
    \/ PollFetch
    \/ PollFetched
    \/ PollWake

SpecPoll == PollInit /\ [][PollNext]_vars

\* The loop with the clock advancing, the fetch resolving and the timer firing.
SpecPollFair ==
    /\ PollInit
    /\ [][PollNext]_vars
    /\ WF_vars(PollTime)
    /\ WF_vars(PollFetch)
    /\ WF_vars(PollFetched)
    /\ WF_vars(PollWake)

\* ------------------------------------------------ chat agent: specification

ChatInit ==
    /\ clock = 0
    /\ InitRegistries
    /\ InitUsers
    /\ InitFanIdle
    /\ InitPollIdle
    /\ InitChatIdle
    /\ lastOp = Idle

ChatNext ==
    \/ Tick
    \/ \E c \in ChatAgentIds : InitChat(c)
    \/ \E c \in ChatAgentIds : AddParticipants(c)
    \/ \E c \in ChatAgentIds : AddMessage(c)
    \/ \E c \in ChatAgentIds : RemoveMessage(c)
    \/ \E c \in ChatAgentIds : SetMessageLike(c)
    \/ \E c \in ChatAgentIds : RemoveMessageLike(c)

SpecChat == ChatInit /\ [][ChatNext]_vars

\* ------------------------------------------------ post comments: specification

PostInit ==
    /\ clock = 0
    /\ InitRegistries
    /\ InitUsers
    /\ InitFanIdle
    /\ InitPollIdle
    /\ InitChatIdle
    /\ lastOp = Idle

PostNext ==
    \/ Tick
    \/ \E p \in PostAgentIds : \E createdBy \in PostAuthors : InitPostCall(p, createdBy)
    \/ \E p \in PostAgentIds : AddComment(p)
    \/ \E p \in PostAgentIds : RemoveComment(p)

SpecPost == PostInit /\ [][PostNext]_vars

\* ------------------------------------------------ comment threads: specification
\* removeComment on a post that holds a thread of three comments, each
\* written at time 0 as a top-level comment or as a reply to an earlier one,
\* the second by A or by B
\* (the code lets a post grow to 2000 comments, and removePostComment does
\* not read that limit).  The post was created by A, whose coordinator still
\* holds the trigger of initPost.

ThreadParents == {<<NoParent, p2, p3>> : p2 \in {NoParent, "k1"},
                                         p3 \in {NoParent, "k1", "k2"}}

Thread(parents, replier) ==
    <<NewComment("k1", "A", "hi", parents[1], 0),
      NewComment("k2", replier, "hi", parents[2], 0),
      NewComment("k3", "A", "hi", parents[3], 0)>>

ThreadInit ==
    /\ clock = 0
    /\ InitRegistries
    /\ InitUsers
    /\ InitPollIdle
    /\ InitChatIdle
    /\ \E parents \in ThreadParents : \E replier \in PostAuthors :
          post = [p \in PostIds |->
                    IF p \in PostAgentIds
                    THEN [InitializedPost(p, "A", "x", 0)
                             EXCEPT !.comments = Thread(parents, replier)]
                    ELSE NullPost]
    /\ updater = [u \in UserIds |-> NullPostUpdates]
    /\ updaterInbox = [u \in UserIds |->
                         IF u = "A"
                         THEN [p \in 1..1 |->
                                 [update |-> PostUpdate("p1", 0, 0),
                                  processImmediately |-> TRUE]]
                         ELSE <<>>]
    /\ ledger = [u \in AllUpdates |-> 0]
    /\ lastOp = Idle

ThreadNext ==
    \/ Tick
    \/ \E p \in PostAgentIds : RemoveComment(p)

SpecThread == ThreadInit /\ [][ThreadNext]_vars

\* ------------------------------------- connections of three users: specification
\* Commands at user A towards any of the three users, from no state at all or
\* from the state that connectUser commands and their delivered echoes leave:
\* A follows B and is B's friend, and C follows A.

MaxCalls == 2

UserWith(userId, connectedUsers) ==
    [UserGetState(NullUser, userId, 0) EXCEPT !.connectedUsers = connectedUsers]

ThreeUserStates ==
    {[u \in UserIds |-> NullUser],
     [u \in UserIds |->
        CASE u = "A" -> UserWith("A", <<ConnectedUser("B", <<Following, Friend>>),
                                        ConnectedUser("C", <<Follower>>)>>)
          [] u = "B" -> UserWith("B", <<ConnectedUser("A", <<Follower, Friend>>)>>)
          [] OTHER -> UserWith("C", <<ConnectedUser("A", <<Following>>)>>)]}

ThreeInit ==
    /\ clock = 0
    /\ InitRegistries
    /\ users \in ThreeUserStates
    /\ userInbox = [u \in UserIds |-> <<>>]
    /\ cmdCount = 0
    /\ script = <<>>
    /\ InitFanIdle
    /\ InitPollIdle
    /\ InitChatIdle
    /\ lastOp = Idle

ConnectAny(self) ==
    /\ cmdCount < MaxCalls
    /\ \E userId \in UserIds, connectionType \in UserConnectionType :
          UserCommand(self, "connectUser", userId, connectionType)

DisconnectAny(self) ==
    /\ cmdCount < MaxCalls
    /\ \E userId \in UserIds, connectionType \in UserConnectionType :
          UserCommand(self, "disconnectUser", userId, connectionType)

ThreeNext ==
    \/ Tick
    \/ ConnectAny("A")
    \/ DisconnectAny("A")
    \/ \E u \in UserIds : UserDeliver(u)

SpecThree == ThreeInit /\ [][ThreeNext]_vars

\* ------------------------------------------------ likes: specification
\* Most likes a post and its comments hold together in one behaviour.
MaxLikes == 2

\* PostAgent and ChatAgent share no state and exchange no message, so a
\* behaviour drives one of the two.  Posts, comments, chats and messages are
\* created at time 0; likes are set and removed at any time.

\* addMessage as the likes specification issues it: under one of two ids.
LikedMessageIds == {"m1", "m2"}

AddLikedMessage(c) ==
    /\ ChatTriggersInFlight < MaxChatTriggers
    /\ \E messageId \in LikedMessageIds \ MessageIdsOf(chat[c]) :
          AddMessageCall(c, messageId, "A", "hi")

\* The likes the messages of a chat hold.
TotalMessageLikes(state) ==
    Cardinality({<<i, j>> \in (1..Len(state.messages)) \X (1..4) :
                    j <= Len(state.messages[i].likes)})

PostsUntouched == \A p \in PostIds : post[p].isNull

ChatsUntouched ==
    /\ \A c \in ChatAgentIds : chat[c].isNull
    /\ \A u \in ChatUsers : userChatsInbox[u] = <<>>

LikesNext ==
    \/ Tick
    \/ /\ ChatsUntouched
       /\ \E p \in PostAgentIds :
            /\ \/ clock = 0 /\ InitPostCall(p, "A")
               \/ clock = 0 /\ AddTopComment(p)
               \/ SetLike(p)
               \/ RemoveLike(p)
               \/ SetCommentLike(p)
               \/ RemoveCommentLike(p)
            /\ TotalLikes(post'[p]) <= MaxLikes
    \/ /\ PostsUntouched
       /\ \E c \in ChatAgentIds :
            /\ \/ clock = 0 /\ InitChatCall(c, <<"B">>, "A", clock)
               \/ clock = 0 /\ AddLikedMessage(c)
               \/ SetMessageLike(c)
               \/ RemoveMessageLike(c)
            /\ TotalMessageLikes(chat'[c]) <= MaxLikes

SpecLikes == PostInit /\ [][LikesNext]_vars

\* ------------------------------------------------ all commands: specification
\* Every command of PostAgent and of ChatAgent, on an actor with or without
\* state: those of the likes specification, and removeComment,
\* addParticipants and removeMessage.

CommandsNext ==
    \/ LikesNext
    \/ ChatsUntouched /\ \E p \in PostAgentIds : RemoveComment(p)
    \/ PostsUntouched /\ \E c \in ChatAgentIds : AddParticipants(c)
    \/ PostsUntouched /\ \E c \in ChatAgentIds : RemoveMessage(c)

SpecCommands == PostInit /\ [][CommandsNext]_vars

\* ------------------------------------------------------- fan-out: properties

\* The public methods of TimelinesUpdaterAgent that run executePostsUpdates.
DrainOps == {"postUpdated", "processPostsUpdates"}

\* This step is a handler of TimelinesUpdaterAgent that ran executePostsUpdates
\* (handlers do not advance the clock; the step records itself in lastOp).
DrainStep ==
    /\ clock' = clock
    /\ lastOp'.op \in DrainOps
    /\ lastOp'.processImmediately

\* The queue of TimelinesUpdaterAgent(a).
Queue(a) == updater[a].updates

\* The postsUpdated triggers this step sent to the timeline of u.
NewTriggers(u) ==
    SubSeq(timelineInbox'[u], Len(timelineInbox[u]) + 1, Len(timelineInbox'[u]))

\* This step sent only, and took nothing from the inbox of the timeline of u.
OnlySent(u) ==
    /\ Len(timelineInbox'[u]) >= Len(timelineInbox[u])
    /\ SubSeq(timelineInbox'[u], 1, Len(timelineInbox[u])) = timelineInbox[u]

\* The connection kinds user u has in the record of author a.
KindsOf(a, u) == {k \in UserConnectionType : Records(a, u, k)}

\* One Ref per update of the batch, in its order, of author a, tagged with k.
TaggedRefs(batch, a, k) ==
    [i \in 1..Len(batch) |->
        [postId |-> batch[i].postId, createdBy |-> a, createdByConnectionType |-> k,
         createdAt |-> batch[i].createdAt, updatedAt |-> batch[i].updatedAt]]

\* C4: a drain for author a with a non-empty queue and an existing author sends
\* to every timeline exactly one postsUpdated per tag it is due: the tag null for
\* a's own timeline, and every connection kind the user has in a's record; each
\* message carries one Ref per queued post with that tag, and a timeline that is
\* due no tag receives nothing.
C4_DrainSendsOnePerKind ==
    [][(DrainStep /\ lastOp'.batch # <<>> /\ ~users[lastOp'.who].isNull) =>
        LET a == lastOp'.who
            batch == lastOp'.batch
        IN  \A u \in UserIds :
                LET tags == KindsOf(a, u) \cup (IF u = a THEN {NoConnection} ELSE {})
                    new == NewTriggers(u)
                IN  /\ OnlySent(u)
                    /\ Len(new) = Cardinality(tags)
                    /\ \A k \in tags :
                          Cardinality({i \in 1..Len(new) :
                                            new[i] = TaggedRefs(batch, a, k)}) = 1
    ]_vars

\* A drain has just distributed two queued posts of A, who is connected to B in
\* two kinds and to C in one: B's timeline was sent two messages, C's one.
C4_Witness ==
    /\ lastOp.op \in DrainOps
    /\ lastOp.cut
    /\ lastOp.who = "A"
    /\ Len(lastOp.batch) = 2
    /\ Cardinality(KindsOf("A", "B")) = 2
    /\ Cardinality(KindsOf("A", "C")) = 1
    /\ Len(timelineInbox["A"]) = 1
    /\ Len(timelineInbox["B"]) = 2
    /\ Len(timelineInbox["C"]) = 1

\* The timeline of u holds a Ref to post p.
InTimeline(u, p) ==
    \E i \in 1..Len(timeline[u].posts) : timeline[u].posts[i].postId = p

\* C5: every post initialized with author a eventually has a Ref in a's own
\* timeline and in the timeline of every user connected to a, every trigger
\* being eventually invoked.
C5_InitializedPostReachesTimelines ==
    \A p \in FanPostIds : \A a \in FanAuthors : \A u \in UserIds :
        (~post[p].isNull /\ post[p].createdBy = a /\ (u = a \/ KindsOf(a, u) # {}))
            ~> InTimeline(u, p)

\* C6 as stated: after a drain that found a non-empty queue and no author, the
\* queue is empty.
C6_MissingAuthorDropsBatch ==
    (/\ lastOp.op \in DrainOps
     /\ lastOp.processImmediately
     /\ lastOp.userMissing
     /\ lastOp.batch # <<>>)
        => Queue(lastOp.who) = <<>>

\* C6: a drain that finds a non-empty queue and no author sends no notification
\* to any timeline and leaves the queue as it found it.
C6_MissingAuthorKeepsBatch ==
    [][(DrainStep /\ lastOp'.batch # <<>> /\ users[lastOp'.who].isNull) =>
        /\ timelineInbox' = timelineInbox
        /\ updater'[lastOp'.who].updates = lastOp'.batch
        /\ lastOp'.op = "processPostsUpdates" => lastOp'.batch = Queue(lastOp'.who)
    ]_vars

\* A processPostsUpdates has just found two queued posts and no author: the
\* queue still holds both and nothing was ever sent.
C6_Witness ==
    /\ lastOp.op = "processPostsUpdates"
    /\ lastOp.userMissing
    /\ Len(lastOp.batch) = 2
    /\ Queue(lastOp.who) = lastOp.batch
    /\ \A u \in UserIds : timelineInbox[u] = <<>>

\* Every update was upserted once more than it was overwritten or distributed
\* exactly when it is queued.
LedgerBalanced ==
    \A u \in AllUpdates :
        ledger[u] = Cardinality({i \in 1..Len(Queue("A")) : Queue("A")[i] = u})

\* C7: a drain with an existing author distributes exactly the queue it found
\* (for postUpdated(update, true): the queue with update upserted) and leaves
\* the queue empty, and no upserted update is lost or distributed twice.
C7_DrainSnapshotsAndClears ==
    /\ []LedgerBalanced
    /\ [][(DrainStep /\ lastOp'.batch # <<>> /\ ~users[lastOp'.who].isNull) =>
            LET a == lastOp'.who
                new == NewTriggers(a)
            IN  /\ updater'[a].updates = <<>>
                /\ lastOp'.op = "processPostsUpdates" => lastOp'.batch = Queue(a)
                /\ lastOp'.op = "postUpdated" =>
                        /\ lastOp'.update \in Range(lastOp'.batch)
                        /\ \A v \in Range(Queue(a)) :
                                v.postId # lastOp'.update.postId
                                    => v \in Range(lastOp'.batch)
                        /\ \A v \in Range(lastOp'.batch) :
                                v = lastOp'.update \/ v \in Range(Queue(a))
                /\ Len(new) >= 1
                /\ {[postId |-> r.postId, createdAt |-> r.createdAt,
                     updatedAt |-> r.updatedAt] : r \in Range(new[1])}
                        = Range(lastOp'.batch)
                /\ Len(new[1]) = Len(lastOp'.batch)
      ]_vars

\* A postUpdated(update, true) has just distributed its update together with an
\* update that an earlier postUpdated(u, false) had queued, and cleared the queue.
C7_Witness ==
    /\ lastOp.op = "postUpdated"
    /\ lastOp.processImmediately
    /\ lastOp.cut
    /\ Len(lastOp.batch) = 2
    /\ cmdCount >= 1
    /\ Queue(lastOp.who) = <<>>
    /\ timelineInbox[lastOp.who] # <<>>

\* C8: the queue holds at most one entry per post id, and postUpdated(u, false)
\* leaves u as the entry of u.postId and every other entry as it was.
C8_QueueKeyedByPostId ==
    /\ [](\A a \in UserIds : \A i, j \in 1..Len(Queue(a)) :
                Queue(a)[i].postId = Queue(a)[j].postId => i = j)
    /\ [][(/\ clock' = clock
           /\ lastOp'.op = "postUpdated"
           /\ ~lastOp'.processImmediately) =>
            LET a == lastOp'.who
                u == lastOp'.update
                after == updater'[a].updates
            IN  /\ Cardinality({i \in 1..Len(after) : after[i].postId = u.postId}) = 1
                /\ u \in Range(after)
                /\ \A v \in Range(Queue(a)) : v.postId # u.postId => v \in Range(after)
                /\ \A v \in Range(after) : v.postId # u.postId => v \in Range(Queue(a))
      ]_vars

\* A postUpdated(u, false) has just replaced the queued entry of its post by a
\* later update, next to the entry of another post.
C8_Witness ==
    /\ lastOp.op = "postUpdated"
    /\ ~lastOp.processImmediately
    /\ lastOp.replaced
    /\ Len(Queue(lastOp.who)) = 2
    /\ lastOp.update \in Range(Queue(lastOp.who))
    /\ lastOp.update.updatedAt > lastOp.update.createdAt

\* --------------------------------------------------- long poll: properties

\* C9: a fetch that returned undefined is the last fetch of the loop: the loop
\* has returned undefined, and it slept only after the fetches before that one.
C9_AbsentReturnsImmediately ==
    \A i \in 1..Len(poll.fetched) :
        ~poll.fetched[i].defined =>
            /\ i = Len(poll.fetched)
            /\ poll.pc = "returned"
            /\ poll.result = Absent
            /\ poll.sleeps = i - 1

\* The third fetch of a loop returned undefined after two empty lists, and the
\* loop has returned undefined.
C9_Witness ==
    /\ poll.pc = "returned"
    /\ poll.fetched = <<List(<<>>), List(<<>>), Absent>>
    /\ poll.result = Absent

\* C10: a fetch that returned a non-empty list is the last fetch of the loop:
\* the loop has returned exactly that list, and it slept only after the fetches
\* before that one (after three empty lists: four fetches, three sleeps).
C10_NonEmptyReturnsImmediately ==
    \A i \in 1..Len(poll.fetched) :
        (poll.fetched[i].defined /\ poll.fetched[i].items # <<>>) =>
            /\ i = Len(poll.fetched)
            /\ poll.pc = "returned"
            /\ poll.result = poll.fetched[i]
            /\ poll.sleeps = i - 1

\* Three fetches returned [] and the fourth [X], before maxWaitTime elapsed: the
\* loop has returned [X].
C10_Witness ==
    /\ poll.pc = "returned"
    /\ poll.fetched = <<List(<<>>), List(<<>>), List(<<>>), List(<<"X">>)>>
    /\ poll.result = List(<<"X">>)
    /\ poll.now - poll.startTime < poll.maxWaitTime

\* Date.now() - startTime as the loop reads it now.
PollElapsed == poll.now - poll.startTime

\* The result of the latest fetch is the empty list.
LastFetchEmpty ==
    /\ poll.fetched # <<>>
    /\ poll.fetched[Len(poll.fetched)] = List(<<>>)

\* C11: the loop has returned the empty list exactly when its last fetch
\* returned the empty list and the elapsed time had reached maxWaitTime; after an
\* empty fetch below maxWaitTime the loop has not returned: it sleeps, and goes
\* on to the next fetch only when iterWaitTime has passed.
C11_EmptyOnlyAtTimeout ==
    /\ poll.pc = "returned" =>
            (poll.result = List(<<>>)
                <=> (LastFetchEmpty /\ PollElapsed >= poll.maxWaitTime))
    /\ (LastFetchEmpty /\ poll.pc # "returned") =>
            /\ poll.sleeps = Len(poll.fetched)
            /\ poll.wakeAt - poll.iterWaitTime - poll.startTime < poll.maxWaitTime
            /\ poll.pc \in {"loop", "fetching"} => poll.now >= poll.wakeAt

\* The loop has returned the empty list after a sleep, and it has fetched again
\* after an empty fetch below maxWaitTime.
C11_Witness ==
    /\ poll.pc = "returned"
    /\ poll.result = List(<<>>)
    /\ poll.sleeps = 2
    /\ Len(poll.fetched) = 3
    /\ PollElapsed >= poll.maxWaitTime

\* The most fetches a loop makes: one per started iterWaitTime of maxWaitTime,
\* and one more.
PollFetchBound ==
    (poll.maxWaitTime + poll.iterWaitTime - 1) \div poll.iterWaitTime + 1

\* C12: the loop returns, after at least one fetch and at most PollFetchBound
\* fetches; a fetch that resolves when the elapsed time has reached maxWaitTime
\* is the last one; and the loop changes no state of any actor.
C12_PollTerminates ==
    /\ <>(poll.pc = "returned")
    /\ [](Len(poll.fetched) <= PollFetchBound)
    /\ [](poll.pc = "returned" => Len(poll.fetched) >= 1)
    /\ [][(poll.pc = "fetching" /\ poll'.pc # "fetching"
                /\ PollElapsed >= poll.maxWaitTime) => poll'.pc = "returned"]_vars
    /\ [][poll' # poll => UNCHANGED <<clock, regVars, userVars, fanVars>>]_vars

\* The loop has returned after as many fetches as the bound allows, the last
\* one made after maxWaitTime had elapsed.
C12_Witness ==
    /\ poll.pc = "returned"
    /\ Len(poll.fetched) = PollFetchBound
    /\ Len(poll.fetched) >= 3
    /\ PollElapsed >= poll.maxWaitTime
    /\ poll.result = List(<<>>)

\* ---------------------------------------------------- registries: reading

\* The Ref list of the registry the last getUpdates read.
ReadRefs ==
    IF lastOp.registry = "timeline" THEN timeline[lastOp.who].posts
    ELSE userChats[lastOp.who].chats

\* The registry the last getUpdates read has no state.
ReadNull ==
    IF lastOp.registry = "timeline" THEN timeline[lastOp.who].isNull
    ELSE userChats[lastOp.who].isNull

\* This step is a getUpdates.
ReadStep == clock' = clock /\ lastOp'.op = "getUpdates"

\* C13: getUpdates(since) that found a state has returned the Refs of the
\* registry with updatedAt > since, in their order, and no other; the call
\* has changed no registry.
C13_GetUpdatesStrictlyAfterSince ==
    /\ []((lastOp.op = "getUpdates" /\ ~lastOp.result.isNull) =>
            LET refs == ReadRefs
                got == lastOp.result.refs
                later == {i \in 1..Len(refs) : refs[i].updatedAt > lastOp.since}
            IN  /\ Len(got) = Cardinality(later)
                /\ \A i \in 1..Len(refs) :
                      (refs[i] \in Range(got)) <=> (i \in later)
                /\ \A i, j \in 1..Len(got) :
                      i < j => \E k, l \in later :
                                    k < l /\ refs[k] = got[i] /\ refs[l] = got[j])
    /\ [][ReadStep => UNCHANGED <<timeline, userChats>>]_vars

\* A getUpdates has left out a Ref updated at since and returned the one Ref
\* updated later.
C13_Witness ==
    /\ lastOp.op = "getUpdates"
    /\ ~lastOp.result.isNull
    /\ Len(ReadRefs) = 2
    /\ ReadRefs[1].updatedAt > lastOp.since
    /\ ReadRefs[2].updatedAt = lastOp.since
    /\ lastOp.result.refs = <<ReadRefs[1]>>

\* The operations that change a registry.
MutatingOps == {"postsUpdated", "createChat", "chatUpdated", "addChat", "removeChat"}

\* C14: getUpdates returns null exactly when the registry has no state, and
\* the owner id with a Ref list otherwise; a registry has no state until the
\* first mutating operation, which gives it one, and never loses its state.
C14_NotFoundOnlyBeforeFirstMutation ==
    /\ [](lastOp.op = "getUpdates" =>
            /\ lastOp.result.isNull <=> ReadNull
            /\ ~lastOp.result.isNull => lastOp.result.userId = lastOp.who)
    /\ [][\A u \in UserIds :
            /\ (clock' = clock /\ lastOp'.op = "postsUpdated" /\ lastOp'.who = u)
                    => ~timeline'[u].isNull
            /\ (clock' = clock /\ lastOp'.op \in MutatingOps \ {"postsUpdated"}
                    /\ lastOp'.who = u)
                    => ~userChats'[u].isNull
            /\ (timeline[u].isNull /\ ~timeline'[u].isNull)
                    => (lastOp'.op = "postsUpdated" /\ lastOp'.who = u)
            /\ (userChats[u].isNull /\ ~userChats'[u].isNull)
                    => (lastOp'.op \in MutatingOps \ {"postsUpdated"} /\ lastOp'.who = u)
            /\ ~timeline[u].isNull => ~timeline'[u].isNull
            /\ ~userChats[u].isNull => ~userChats'[u].isNull
      ]_vars

\* A getUpdates has returned the owner id with an empty list from a Chat
\* Registry whose state exists and holds no Ref.
C14_Witness ==
    /\ lastOp.op = "getUpdates"
    /\ lastOp.registry = "chats"
    /\ ~lastOp.result.isNull
    /\ lastOp.result.userId = "A"
    /\ lastOp.result.refs = <<>>
    /\ userChats["A"].chats = <<>>

\* The Ref list of the Chat Registry of u holds a Ref of chat id.
HasChatRef(u, id) ==
    \E i \in 1..Len(userChats[u].chats) : userChats[u].chats[i].chatId = id

\* C18: chatUpdated for a chat id without a Ref fails and leaves the Ref list
\* as it was (and succeeds for an id with a Ref); addChat for a chat id that has
\* a Ref succeeds and leaves the Ref list as it was.
C18_ChatUpdatedMissingAddChatPresent ==
    [][/\ (clock' = clock /\ lastOp'.op = "chatUpdated") =>
            \A id \in ChatIds :
                \/ IF HasChatRef(lastOp'.who, id)
                   THEN lastOp'.ok
                   ELSE /\ ~lastOp'.ok
                        /\ userChats'[lastOp'.who].chats = userChats[lastOp'.who].chats
                \/ \A at \in Times : ~ChatUpdatedCall(lastOp'.who, id, at)
       /\ (clock' = clock /\ lastOp'.op = "addChat") =>
            \A id \in {c \in ChatIds : HasChatRef(lastOp'.who, c)} :
                \/ /\ lastOp'.ok
                   /\ userChats'[lastOp'.who].chats = userChats[lastOp'.who].chats
                \/ \A by \in UserIds : \A at \in Times :
                      ~AddChatCall(lastOp'.who, id, by, at)
    ]_vars

\* A chatUpdated has just failed at a Chat Registry that holds two Refs, and
\* both are still there.
C18_Witness ==
    /\ lastOp.op = "chatUpdated"
    /\ ~lastOp.ok
    /\ Len(userChats[lastOp.who].chats) = 2
    /\ userChats[lastOp.who].chats[1].chatId # userChats[lastOp.who].chats[2].chatId

\* ------------------------------------------------ chat agent: properties

\* What one step appends to the inbox of u's Chat Registry.
SentTo(u) ==
    SubSeq(userChatsInbox'[u], Len(userChatsInbox[u]) + 1, Len(userChatsInbox'[u]))

SentCount(u, op) == Len(SelectSeq(SentTo(u), LAMBDA n : n.op = op))

ChatStep(name, c) ==
    /\ clock' = clock
    /\ lastOp'.op = name
    /\ lastOp'.who = c

IsParticipant(state, u) == Contains(state.participants, u)

AddChatNote(state, createdAt) ==
    [op |-> "addChat", chatId |-> state.chatId, createdBy |-> state.createdBy,
     createdAt |-> createdAt]

ChatUpdatedNote(state) ==
    [op |-> "chatUpdated", chatId |-> state.chatId, updatedAt |-> state.updatedAt]

\* C15 as stated: a successful initChat sends an addChat notification to the
\* Chat Registry of every participant, the creator included, and a
\* chatUpdated notification to the Chat Registry of every participant.
C15_InitChatNotifiesEveryParticipantTwice ==
    [][\A c \in ChatAgentIds :
          ChatStep("initChat", c) /\ lastOp'.ok =>
             \A u \in ChatUsers :
                IsParticipant(chat'[c], u) =>
                   /\ SentCount(u, "addChat") >= 1
                   /\ SentCount(u, "chatUpdated") >= 1]_vars

\* C15 amended: a successful initChat sends exactly one addChat notification,
\* carrying the chat's id, creator and createdAt, to the Chat Registry of
\* every participant other than the creator; it sends nothing to the creator,
\* nothing to a non-participant and no chatUpdated notification at all.
C15_InitChatAddsChatForOthersOnly ==
    [][\A c \in ChatAgentIds :
          ChatStep("initChat", c) /\ lastOp'.ok =>
             \A u \in ChatUsers :
                IF IsParticipant(chat'[c], u) /\ u # chat'[c].createdBy
                THEN SentTo(u) = <<AddChatNote(chat'[c], chat'[c].createdAt)>>
                ELSE SentTo(u) = <<>>]_vars

C15_Witness ==
    /\ lastOp.op = "initChat"
    /\ lastOp.ok
    /\ chat["c1"].participants = <<"B", "C", "A">>
    /\ userChatsInbox["A"] = <<>>
    /\ Len(userChatsInbox["B"]) = 1
    /\ Len(userChatsInbox["C"]) = 1

NewIds(state, participantsIds) ==
    {u \in ChatUsers : Contains(participantsIds, u) /\ ~IsParticipant(state, u)}

AllNotes(u, note) == \A i \in 1..Len(SentTo(u)) : SentTo(u)[i] = note

\* C16: addParticipants(ids) fails, leaving the chat unchanged and sending
\* nothing, when no id of ids is new; otherwise the participants become the
\* old ones plus the new ids, updatedAt is the time of the call, every new
\* participant's registry is sent addChat (with the new updatedAt) and
\* nothing else, every participant from before the call is sent chatUpdated
\* (with the new updatedAt) and nothing else, and nobody else is sent
\* anything.
C16_AddParticipantsNotifiesNewAndOld ==
    [][\A c \in ChatAgentIds : \A ids \in AddParticipantLists :
          /\ ChatStep("addParticipants", c)
          /\ ~chat[c].isNull
          /\ AddParticipantsCall(c, ids)
          => IF NewIds(chat[c], ids) = {}
             THEN /\ ~lastOp'.ok
                  /\ chat'[c] = chat[c]
                  /\ userChatsInbox' = userChatsInbox
             ELSE /\ lastOp'.ok
                  /\ Range(chat'[c].participants)
                        = Range(chat[c].participants) \cup NewIds(chat[c], ids)
                  /\ chat'[c].updatedAt = clock
                  /\ \A u \in ChatUsers :
                        IF u \in NewIds(chat[c], ids)
                        THEN /\ SentCount(u, "addChat") >= 1
                             /\ AllNotes(u, AddChatNote(chat'[c], chat'[c].updatedAt))
                        ELSE IF IsParticipant(chat[c], u)
                        THEN /\ SentCount(u, "chatUpdated") >= 1
                             /\ AllNotes(u, ChatUpdatedNote(chat'[c]))
                        ELSE SentTo(u) = <<>>]_vars

C16_Witness ==
    /\ lastOp.op = "addParticipants"
    /\ lastOp.ok
    /\ clock = 1
    /\ chat["c1"].participants = <<"B", "A", "C">>
    /\ chat["c1"].createdAt = 0
    /\ chat["c1"].updatedAt = 1
    /\ userChatsInbox["C"] = <<AddChatNote(chat["c1"], 1)>>
    /\ userChatsInbox["A"] = <<ChatUpdatedNote(chat["c1"])>>
    /\ Len(userChatsInbox["B"]) = 2

MessageOps == {"addMessage", "removeMessage", "setMessageLike", "removeMessageLike"}

\* C17: every successful addMessage, removeMessage, setMessageLike and
\* removeMessageLike sends exactly one chatUpdated notification, carrying the
\* chat's id and its new updatedAt, to the Chat Registry of each current
\* participant (and nothing to anyone else); a failed call sends nothing.
C17_MessageOpsNotifyEachParticipantOnce ==
    [][\A c \in ChatAgentIds : \A name \in MessageOps :
          ChatStep(name, c) =>
             \A u \in ChatUsers :
                IF lastOp'.ok /\ IsParticipant(chat'[c], u)
                THEN SentTo(u) = <<ChatUpdatedNote(chat'[c])>>
                ELSE SentTo(u) = <<>>]_vars

\* C19: a chat never holds more than MAX_CHAT_LENGTH messages: addMessage on
\* a chat with fewer messages succeeds and appends one message; on a chat
\* that holds MAX_CHAT_LENGTH messages it fails, leaves messages and
\* updatedAt as they were and sends no notification.
C19_ChatMessageCap ==
    /\ [](\A c \in ChatAgentIds : Len(chat[c].messages) <= MAX_CHAT_LENGTH)
    /\ [][\A c \in ChatAgentIds :
             ChatStep("addMessage", c) /\ ~chat[c].isNull =>
                IF Len(chat[c].messages) < MAX_CHAT_LENGTH
                THEN /\ lastOp'.ok
                     /\ Len(chat'[c].messages) = Len(chat[c].messages) + 1
                     /\ Take(chat'[c].messages, Len(chat[c].messages))
                           = chat[c].messages
                ELSE /\ ~lastOp'.ok
                     /\ chat'[c].messages = chat[c].messages
                     /\ chat'[c].updatedAt = chat[c].updatedAt
                     /\ userChatsInbox' = userChatsInbox]_vars

C19_Witness ==
    /\ lastOp.op = "addMessage"
    /\ ~lastOp.ok
    /\ Len(chat["c1"].messages) = MAX_CHAT_LENGTH
    /\ clock > chat["c1"].updatedAt

\* ------------------------------------------------ post comments: properties

PostStep(name, p) ==
    /\ clock' = clock
    /\ lastOp'.op = name
    /\ lastOp'.who = p

\* C20: a post never holds more than MAX_COMMENTS_LENGTH comments and no two
\* comments of a post share an id: addComment on a post that holds
\* MAX_COMMENTS_LENGTH comments fails and leaves comments and updatedAt as
\* they were; below the cap it succeeds whatever parentCommentId is (an id
\* of no existing comment included) and appends exactly one comment, which
\* carries that parentCommentId and an id no existing comment has.
C20_PostCommentCap ==
    /\ [](\A p \in PostAgentIds :
            /\ Len(post[p].comments) <= MAX_COMMENTS_LENGTH
            /\ Cardinality(CommentIdsOf(post[p])) = Len(post[p].comments))
    /\ [][\A p \in PostAgentIds : \A parentCommentId \in ParentCommentIds :
             /\ PostStep("addComment", p)
             /\ ~post[p].isNull
             /\ \E cid \in CommentIds : \E userId \in CommentAuthors :
                \E content \in Contents :
                   AddCommentCall(p, cid, userId, content, parentCommentId)
             => IF Len(post[p].comments) >= MAX_COMMENTS_LENGTH
                THEN /\ ~lastOp'.ok
                     /\ post'[p].comments = post[p].comments
                     /\ post'[p].updatedAt = post[p].updatedAt
                ELSE /\ lastOp'.ok
                     /\ Len(post'[p].comments) = Len(post[p].comments) + 1
                     /\ Take(post'[p].comments, Len(post[p].comments))
                           = post[p].comments
                     /\ LET added == post'[p].comments[Len(post'[p].comments)]
                        IN /\ added[1] \notin CommentIdsOf(post[p])
                           /\ added[2].commentId = added[1]
                           /\ added[2].parentCommentId = parentCommentId]_vars

DanglingParent(p) ==
    \E i \in 1..Len(post[p].comments) :
        /\ post[p].comments[i][2].parentCommentId # NoParent
        /\ post[p].comments[i][2].parentCommentId \notin CommentIdsOf(post[p])

C20_Witness ==
    /\ lastOp.op = "addComment"
    /\ ~lastOp.ok
    /\ Len(post["p1"].comments) = MAX_COMMENTS_LENGTH
    /\ DanglingParent("p1")
    /\ clock > post["p1"].updatedAt

\* The postUpdated triggers for post p waiting at the coordinator of u.
InitTriggers(u, p) ==
    SelectSeq(updaterInbox[u], LAMBDA m : m.update.postId = p)

InitTrigger(state) ==
    [update |-> PostUpdate(state.postId, state.createdAt, state.createdAt),
     processImmediately |-> TRUE]

\* C21: a post is initialized at most once: initPost on an uninitialized
\* post succeeds, sets author and content and sends exactly one
\* postUpdated(postId, createdAt, createdAt) trigger with processImmediately
\* = TRUE to the author's coordinator and nothing to any other; initPost on
\* an initialized post fails, changes nothing in the post and sends nothing.
\* So at most one trigger for a post is ever sent, and it is at its author's
\* coordinator.
C21_PostInitializedOnce ==
    /\ [](\A p \in PostAgentIds : \A u \in UserIds :
            Len(InitTriggers(u, p))
               = IF ~post[p].isNull /\ post[p].createdBy = u THEN 1 ELSE 0)
    /\ [][\A p \in PostAgentIds : \A createdBy \in PostAuthors :
             PostStep("initPost", p) /\ InitPostCall(p, createdBy) =>
                IF post[p].isNull
                THEN /\ lastOp'.ok
                     /\ ~post'[p].isNull
                     /\ post'[p].createdBy = createdBy
                     /\ post'[p].content = "x"
                     /\ post'[p].createdAt = clock
                     /\ updaterInbox' = [updaterInbox EXCEPT ![createdBy] =
                                            Append(@, InitTrigger(post'[p]))]
                ELSE /\ ~lastOp'.ok
                     /\ post'[p] = post[p]
                     /\ updaterInbox' = updaterInbox]_vars

C21_Witness ==
    /\ lastOp.op = "initPost"
    /\ ~lastOp.ok
    /\ post["p1"].createdBy = "B"
    /\ post["p1"].createdAt = 0
    /\ clock = 1
    /\ updaterInbox["B"] = <<InitTrigger(post["p1"])>>
    /\ updaterInbox["A"] = <<>>

\* ------------------------------------------------ chat agent: initialization

\* C22: initChat fails, leaving the chat state as it was (uninitialized when
\* it was) and sending nothing, if the chat is already initialized or if
\* participantIds together with createdBy name fewer than 2 distinct users;
\* otherwise it succeeds and the participants are exactly those distinct
\* users, each once.
C22_InitChatFailsOrSetsParticipants ==
    [][\A c \in ChatAgentIds : \A ids \in InitParticipantLists :
       \A createdBy \in ChatCreators : \A createdAt \in Times :
          ChatStep("initChat", c) /\ InitChatCall(c, ids, createdBy, createdAt) =>
             IF ~chat[c].isNull \/ Cardinality(Range(ids) \cup {createdBy}) < 2
             THEN /\ ~lastOp'.ok
                  /\ chat'[c] = chat[c]
                  /\ userChatsInbox' = userChatsInbox
             ELSE /\ lastOp'.ok
                  /\ ~chat'[c].isNull
                  /\ Range(chat'[c].participants) = Range(ids) \cup {createdBy}
                  /\ Len(chat'[c].participants)
                        = Cardinality(Range(ids) \cup {createdBy})]_vars

C22_Witness ==
    /\ lastOp.op = "initChat"
    /\ ~lastOp.ok
    /\ chat["c1"].isNull
    /\ clock = 1
    /\ \A u \in ChatUsers : userChatsInbox[u] = <<>>

\* C23: in every reachable state of an initialized chat the participants
\* form a set (no id occurs twice), the creator is one of them and there are
\* at least 2 of them.
C23_ParticipantsFormSet ==
    \A c \in ChatAgentIds :
        ~chat[c].isNull =>
            /\ Len(chat[c].participants) = Cardinality(Range(chat[c].participants))
            /\ IsParticipant(chat[c], chat[c].createdBy)
            /\ Cardinality(Range(chat[c].participants)) >= 2

\* ------------------------------------------------ connections: properties

NoRepeat(seq) == \A i \in 1..Len(seq) : \A j \in 1..Len(seq) : seq[i] = seq[j] => i = j

\* C24: in every reachable state of every User Actor there is no connection
\* record for the user's own id, at most one record per connected user id,
\* and every record holds at least one kind and no kind twice.
C24_ConnectionRecordsWellFormed ==
    \A u \in UserIds :
        LET cu == users[u].connectedUsers
        IN  /\ \A i \in 1..Len(cu) : cu[i].userId # u
            /\ \A i \in 1..Len(cu) : \A j \in 1..Len(cu) :
                  cu[i].userId = cu[j].userId => i = j
            /\ \A i \in 1..Len(cu) :
                  /\ cu[i].connectionTypes # <<>>
                  /\ NoRepeat(cu[i].connectionTypes)

\* A connectUser that changed nothing has just run at a user whose record
\* towards the other user holds two kinds.
C24_Witness ==
    /\ lastOp.op = "connectUser"
    /\ ~lastOp.cut
    /\ lastOp.who = "A"
    /\ Len(users["A"].connectedUsers) = 1
    /\ users["A"].connectedUsers[1].userId = "B"
    /\ Len(users["A"].connectedUsers[1].connectionTypes) = 2

\* The step is UserAgent(a).op(b, k), called from outside or delivered.
UserCall(a, op, b, k) ==
    \/ UserCommand(a, op, b, k)
    \/ /\ userInbox[a] # <<>>
       /\ Head(userInbox[a]) = UserMsg(op, b, k)
       /\ UserDeliver(a)

\* C25: wherever a command can still be issued, connectUser(b, k) at a,
\* applied to the state a first connectUser(b, k) leaves, returns that state
\* unchanged (kinds and timestamps, also at a later time) and decides to
\* send nothing; and every connectUser(b, k) step
\* at a user who already records k towards b changes nothing at a and puts
\* no message in b's inbox.
C25_ConnectUserIdempotent ==
    /\ [](cmdCount < MaxCmds =>
            \A a \in ConnUsers : \A b \in ConnUsers \ {a} : \A k \in UserConnectionType :
               LET once == UserConnected(UserGetState(users[a], a, clock), b, k, clock)
               IN  /\ ~ShouldConnect(once, b, k)
                   /\ UserConnected(once, b, k, MaxClock) = once)
    /\ [][\A a \in ConnUsers :
             (clock' = clock /\ lastOp'.op = "connectUser" /\ lastOp'.who = a) =>
                \A b \in ConnUsers : \A k \in {t \in UserConnectionType : Records(a, b, t)} :
                   \/ /\ users'[a] = users[a]
                      /\ userInbox'[b] = userInbox[b]
                      /\ ~lastOp'.cut
                   \/ ~UserCall(a, "connectUser", b, k)]_vars

\* The second of two commands was a connectUser at A that changed nothing,
\* at a later time than the first, which made A follow B.
C25_Witness ==
    /\ lastOp.op = "connectUser"
    /\ lastOp.who = "A"
    /\ ~lastOp.cut
    /\ cmdCount = 2
    /\ clock = 1
    /\ users["A"].updatedAt = 0
    /\ Records("A", "B", Following)
    /\ Records("B", "A", Follower)
    /\ NoUserMessageInFlight

\* The connection records user state st holds for user c, and their kinds.
RecordsFor(st, c) == SelectSeq(st.connectedUsers, LAMBDA r : r.userId = c)

KindsFor(st, c) ==
    UNION {Range(RecordsFor(st, c)[i].connectionTypes) : i \in 1..Len(RecordsFor(st, c))}

Opposite(k) ==
    CASE k = Follower -> Following
      [] k = Following -> Follower
      [] k = Friend -> Friend

\* C26: disconnectUser(b, k) at a, external or echoed, when a records kind k
\* towards b (b another user): the kinds a records towards b become the
\* former ones without k, in at most one record and none when no kind is
\* left; a's records for every other user stay as they were; exactly one
\* disconnectUser(a, opposite(k)) is appended to b's inbox and nothing to any
\* third user's.  Otherwise no connection record changes and nothing is sent.
C26_DisconnectRemovesOneKind ==
    [][\A a \in UserIds :
          (clock' = clock /\ lastOp'.op = "disconnectUser" /\ lastOp'.who = a) =>
             \A b \in UserIds : \A k \in UserConnectionType :
                \/ ~UserCall(a, "disconnectUser", b, k)
                \/ IF b # a /\ k \in KindsFor(users[a], b)
                   THEN /\ KindsFor(users'[a], b) = KindsFor(users[a], b) \ {k}
                        /\ Len(RecordsFor(users'[a], b))
                              = IF KindsFor(users[a], b) = {k} THEN 0 ELSE 1
                        /\ \A c \in UserIds \ {b} :
                              RecordsFor(users'[a], c) = RecordsFor(users[a], c)
                        /\ Len(userInbox'[b]) = Len(userInbox[b]) + 1
                        /\ userInbox'[b][Len(userInbox'[b])]
                              = UserMsg("disconnectUser", a, Opposite(k))
                        /\ \A c \in UserIds \ {a, b} : userInbox'[c] = userInbox[c]
                   ELSE /\ users'[a].connectedUsers = users[a].connectedUsers
                        /\ \A c \in UserIds \ {a} : userInbox'[c] = userInbox[c]
                        /\ Len(userInbox'[a]) <= Len(userInbox[a])]_vars

\* A has just dropped Friend from its two-kind record towards B at time 1:
\* Following is left, C's record is untouched, and B has the notice.
C26_Witness ==
    /\ lastOp.op = "disconnectUser"
    /\ lastOp.who = "A"
    /\ lastOp.cut
    /\ clock = 1
    /\ users["A"].connectedUsers =
          <<[ConnectedUser("B", <<Following>>) EXCEPT !.updatedAt = 1],
            ConnectedUser("C", <<Follower>>)>>
    /\ userInbox["B"] = <<UserMsg("disconnectUser", "A", Friend)>>
    /\ userInbox["C"] = <<>>

\* ------------------------------------------------ snapshots: specification
\* A post is created by A at time 0 and gets up to two comments at time 0,
\* each top-level or a reply to the first, which B may dislike at once; A
\* and B like the post at any time (at most MaxLikes likes in all); the
\* agent is recovered from its own snapshot at any time, the agent that was
\* never initialized included.

SnapshotCommentIds == <<"k1", "k2">>

SnapNext ==
    \/ Tick
    \/ \E p \in PostAgentIds :
         /\ \/ clock = 0 /\ InitPostCall(p, "A")
            \/ /\ clock = 0
               /\ Len(post[p].comments) < Len(SnapshotCommentIds)
               /\ \E parentCommentId \in {NoParent, "k1"} :
                     AddCommentCall(p, SnapshotCommentIds[Len(post[p].comments) + 1],
                                    "A", "hi", parentCommentId)
            \/ /\ clock = 0
               /\ \E commentId \in Range(SnapshotCommentIds) :
                     SetCommentLikeCall(p, commentId, "B", "Dislike")
            \/ \E userId \in LikeUsers : SetLikeCall(p, userId, "Like")
         /\ TotalLikes(post'[p]) <= MaxLikes
    \/ \E p \in PostAgentIds : Recover(p)
    \/ \E p \in PostAgentIds : LoadEmpty(p)
    \/ \E p \in PostAgentIds : LoadOtherVersion(p)

SpecSnap == PostInit /\ [][SnapNext]_vars

\* ------------------------------------------------ queries: specification
\* Posts and users are asked whether they match a query.  A query text is
\* made of at most two field filters and at most one free term, separated by
\* single spaces.

Joined(tokens) ==
    IF Len(tokens) = 0 THEN <<>>
    ELSE IF Len(tokens) = 1 THEN tokens[1]
    ELSE IF Len(tokens) = 2 THEN tokens[1] \o <<32>> \o tokens[2]
    ELSE tokens[1] \o <<32>> \o tokens[2] \o <<32>> \o tokens[3]

FilterToken(field, value) == CodeUnits[field] \o <<58>> \o value

\* The token lists of the query texts over fields and values: no filter, one
\* filter, or a filter on the field `first` followed by any filter; then no
\* term or one.
QueryTokens(fields, first, values) ==
    LET one == {<<FilterToken(f, v)>> : f \in fields, v \in values}
        two == {<<FilterToken(first, v)>> \o o : v \in values, o \in one}
    IN  {fs \o ts : fs \in {<<>>} \cup one \cup two,
                    ts \in {<<>>} \cup {<<v>> : v \in values}}

PostQueryFields == {"content", "comments", "created-by", "likes"}
PostQueryValues == {Star, CodeUnits["hi"], CodeUnits["A"]}

UserQueryFields == {"user-id", "name", "connected-users", "likes"}
UserQueryValues == {Star, CodeUnits["n"], CodeUnits["B"]}

\* new Query(text) for every query text the clients send.
PostQueries ==
    {QueryOf(Joined(ts)) : ts \in QueryTokens(PostQueryFields, "content", PostQueryValues)}

UserQueries ==
    {QueryOf(Joined(ts)) : ts \in QueryTokens(UserQueryFields, "name", UserQueryValues)}

\* PostAgent(p).getPostIfMatch(query): ok says that the post was returned.
GetPostIfMatch(p) ==
    \E query \in PostQueries :
        /\ lastOp' = [op |-> "getPostIfMatch", who |-> p,
                      ok |-> ~post[p].isNull /\ postMatchesQuery(post[p], query),
                      cut |-> FALSE, query |-> query]
        /\ UNCHANGED <<clock, regVars, userVars, fanVars, poll, chatVars>>

\* UserSearchAgent.search(query) over the one user u: getUser, then
\* matcher.matches; ok says that the result holds the user.
SearchUser(u) ==
    \E query \in UserQueries :
        /\ lastOp' = [op |-> "search", who |-> u,
                      ok |-> ~users[u].isNull /\ userMatchesQuery(users[u], query),
                      cut |-> FALSE, query |-> query]
        /\ UNCHANGED <<clock, regVars, userVars, fanVars, poll, chatVars>>

QueryUsers == {"A"}

\* The states user A starts from: a state with no name, and one connected to B.
QueryUserStates ==
    {UserGetState(NullUser, "A", 0),
     [UserGetState(NullUser, "A", 0) EXCEPT
        !.connectedUsers = <<ConnectedUser("B", <<Friend>>)>>]}

QueryInit ==
    /\ clock = 0
    /\ InitRegistries
    /\ users \in {[u \in UserIds |-> IF u = "A" THEN s ELSE NullUser] :
                    s \in QueryUserStates}
    /\ userInbox = [u \in UserIds |-> <<>>]
    /\ cmdCount = 0
    /\ script = <<>>
    /\ InitFanIdle
    /\ InitPollIdle
    /\ InitChatIdle
    /\ lastOp = Idle

QueryNext ==
    \/ \E p \in PostAgentIds : InitPostCall(p, "A")
    \/ \E p \in PostAgentIds : AddCommentCall(p, "k1", "B", "hi", NoParent)
    \/ \E u \in QueryUsers : SetName(u)
    \/ \E p \in PostAgentIds : GetPostIfMatch(p)
    \/ \E u \in QueryUsers : SearchUser(u)

SpecQuery == QueryInit /\ [][QueryNext]_vars

\* ------------------------------------------------ query texts: specification
\* new Query(text) for every text of at most MaxQueryLen characters out of
\* space, tab, double quote, colon, `a` and `A`.

MaxQueryLen == 4

QueryAlphabet == {32, 9, 34, 58, 97, 65}

QueryTexts ==
    UNION {[1..n -> QueryAlphabet] : n \in 0..MaxQueryLen}

NewQuery ==
    \E text \in QueryTexts :
        /\ lastOp' = [op |-> "newQuery", who |-> "", ok |-> TRUE, cut |-> FALSE,
                      text |-> text, query |-> QueryOf(text)]
        /\ UNCHANGED <<clock, regVars, userVars, fanVars, poll, chatVars>>

TextNext == NewQuery

SpecText == PostInit /\ [][TextNext]_vars

\* ------------------------------------------------ chat delivery: specification
\* A user creates the chat c1, whose initChat trigger, like every addChat and
\* chatUpdated trigger of the chat, is invoked some time after it was sent, in
\* the order of sending at each destination.

RouteCreators == {"A"}

\* participantsIds of createChat: nobody, the creator alone, one other user,
\* two other users.
RouteParticipantLists == {<<>>, <<"A">>, <<"B">>, <<"B", "C">>}

RouteCreateChat(u) ==
    \E c \in ChatAgentIds \ usedChatIds :
    \E participantsIds \in RouteParticipantLists :
        CreateChatCall(u, c, participantsIds)

\* The initChat trigger at the head of the inbox of ChatAgent(c) is invoked.
DeliverInitChat(c) ==
    /\ chatInbox[c] # <<>>
    /\ LET m == Head(chatInbox[c])
           fails == \/ ~chat[c].isNull
                    \/ Len(Dedup(Append(m.participantsIds, m.createdBy))) < 2
           state == initializeChatAgent(initChatState(c, clock), m.participantsIds,
                                        m.createdBy, m.createdAt)
       IN  /\ lastOp' = ChatOp("initChat", c, ~fails)
           /\ chat' = [chat EXCEPT ![c] = IF fails THEN @ ELSE state]
           /\ userChatsInbox' =
                IF fails THEN userChatsInbox
                ELSE SendAll(userChatsInbox,
                        executeAddChat(state.chatId, m.createdBy, state.createdAt,
                                       state.participants))
    /\ chatInbox' = [chatInbox EXCEPT ![c] = Tail(@)]
    /\ UNCHANGED <<clock, timeline, timelineInbox, userChats, usedChatIds,
                   userVars, fanVars, poll>>

\* The addChat or chatUpdated trigger at the head of the inbox of
\* UserChatsAgent(u) is invoked.
DeliverChatTrigger(u) ==
    /\ userChatsInbox[u] # <<>>
    /\ LET m == Head(userChatsInbox[u])
           s == ChatsGetState(userChats[u], u, clock)
       IN  /\ lastOp' = [op |-> m.op, who |-> u,
                         ok |-> m.op = "addChat" \/ ChatIndex(s.chats, m.chatId) # 0,
                         cut |-> FALSE]
           /\ userChats' = [userChats EXCEPT ![u] =
                IF m.op = "addChat"
                THEN ChatsAddChat(userChats[u], u, m.chatId, m.createdBy, m.createdAt,
                                  clock)
                ELSE ChatsChatUpdated(userChats[u], u, m.chatId, m.updatedAt, clock)]
    /\ userChatsInbox' = [userChatsInbox EXCEPT ![u] = Tail(@)]
    /\ UNCHANGED <<clock, timeline, timelineInbox, usedChatIds, chatInbox, chat,
                   userVars, fanVars, poll>>

RouteNext ==
    \/ Tick
    \/ \E u \in RouteCreators : RouteCreateChat(u)
    \/ \E c \in ChatAgentIds : DeliverInitChat(c)
    \/ \E c \in ChatAgentIds : AddParticipants(c)
    \/ \E c \in ChatAgentIds : AddMessage(c)
    \/ \E u \in ChatUsers : DeliverChatTrigger(u)

SpecRoute == ChatInit /\ [][RouteNext]_vars

\* ------------------------------------------------ likes: properties

\* The like types user u has in a like set.
EntriesOf(likes, u) == {likes[i][2] : i \in {j \in 1..Len(likes) : likes[j][1] = u}}

OnePerUser(likes) ==
    \A i \in 1..Len(likes) : \A j \in 1..Len(likes) : likes[i][1] = likes[j][1] => i = j

OthersKept(before, after, u) ==
    \A v \in LikeUsers \ {u} :
        /\ EntriesOf(after, v) = EntriesOf(before, v)
        /\ Len(SelectSeq(after, LAMBDA l : l[1] = v))
              = Len(SelectSeq(before, LAMBDA l : l[1] = v))

LikeSet(before, after, u, k) ==
    /\ EntriesOf(after, u) = {k}
    /\ Len(SelectSeq(after, LAMBDA l : l[1] = u)) = 1
    /\ OthersKept(before, after, u)

LikeRemoved(before, after, u) ==
    /\ EntriesOf(after, u) = {}
    /\ OthersKept(before, after, u)

CommentLikes(state, cid) == state.comments[CommentIndex(state.comments, cid)][2].likes

MessageLikes(state, mid) ==
    state.messages[CHOOSE i \in 1..Len(state.messages) :
                        state.messages[i].messageId = mid].likes

OtherCommentsKept(p, cid) ==
    /\ post'[p].likes = post[p].likes
    /\ CommentIdsOf(post'[p]) = CommentIdsOf(post[p])
    /\ \A other \in CommentIdsOf(post[p]) \ {cid} :
          CommentLikes(post'[p], other) = CommentLikes(post[p], other)

OtherMessagesKept(c, mid) ==
    /\ MessageIdsOf(chat'[c]) = MessageIdsOf(chat[c])
    /\ \A other \in MessageIdsOf(chat[c]) \ {mid} :
          MessageLikes(chat'[c], other) = MessageLikes(chat[c], other)

LikesOnePerUser ==
    /\ \A p \in PostAgentIds :
          /\ OnePerUser(post[p].likes)
          /\ \A i \in 1..Len(post[p].comments) : OnePerUser(post[p].comments[i][2].likes)
    /\ \A c \in ChatAgentIds :
          \A i \in 1..Len(chat[c].messages) : OnePerUser(chat[c].messages[i].likes)

PostLikeSteps ==
    \A p \in PostAgentIds :
        /\ PostStep("setLike", p) /\ ~post[p].isNull =>
              \A u \in LikeUsers : \A k \in LikeTypes :
                 \/ /\ lastOp'.ok
                    /\ LikeSet(post[p].likes, post'[p].likes, u, k)
                    /\ post'[p].comments = post[p].comments
                 \/ ~SetLikeCall(p, u, k)
        /\ PostStep("removeLike", p) /\ ~post[p].isNull =>
              \A u \in LikeUsers :
                 \/ IF EntriesOf(post[p].likes, u) = {}
                    THEN ~lastOp'.ok /\ post'[p] = post[p]
                    ELSE /\ lastOp'.ok
                         /\ LikeRemoved(post[p].likes, post'[p].likes, u)
                         /\ post'[p].comments = post[p].comments
                 \/ ~RemoveLikeCall(p, u)

CommentLikeSteps ==
    \A p \in PostAgentIds :
        /\ PostStep("setCommentLike", p) /\ ~post[p].isNull =>
              \A u \in LikeUsers : \A cid \in CommentIds : \A k \in LikeTypes :
                 \/ IF cid \in CommentIdsOf(post[p])
                    THEN /\ lastOp'.ok
                         /\ LikeSet(CommentLikes(post[p], cid),
                                    CommentLikes(post'[p], cid), u, k)
                         /\ OtherCommentsKept(p, cid)
                    ELSE ~lastOp'.ok /\ post'[p] = post[p]
                 \/ ~SetCommentLikeCall(p, cid, u, k)
        /\ PostStep("removeCommentLike", p) /\ ~post[p].isNull =>
              \A u \in LikeUsers : \A cid \in CommentIds :
                 \/ IF /\ cid \in CommentIdsOf(post[p])
                       /\ EntriesOf(CommentLikes(post[p], cid), u) # {}
                    THEN /\ lastOp'.ok
                         /\ LikeRemoved(CommentLikes(post[p], cid),
                                        CommentLikes(post'[p], cid), u)
                         /\ OtherCommentsKept(p, cid)
                    ELSE ~lastOp'.ok /\ post'[p] = post[p]
                 \/ ~RemoveCommentLikeCall(p, cid, u)

MessageLikeSteps ==
    \A c \in ChatAgentIds :
        /\ ChatStep("setMessageLike", c) /\ ~chat[c].isNull =>
              \A u \in LikeUsers : \A mid \in MessageIds : \A k \in LikeTypes :
                 \/ IF mid \in MessageIdsOf(chat[c])
                    THEN /\ lastOp'.ok
                         /\ LikeSet(MessageLikes(chat[c], mid),
                                    MessageLikes(chat'[c], mid), u, k)
                         /\ OtherMessagesKept(c, mid)
                    ELSE ~lastOp'.ok /\ chat'[c] = chat[c]
                 \/ ~SetMessageLikeCall(c, mid, u, k)
        /\ ChatStep("removeMessageLike", c) /\ ~chat[c].isNull =>
              \A u \in LikeUsers : \A mid \in MessageIds :
                 \/ IF /\ mid \in MessageIdsOf(chat[c])
                       /\ EntriesOf(MessageLikes(chat[c], mid), u) # {}
                    THEN /\ lastOp'.ok
                         /\ LikeRemoved(MessageLikes(chat[c], mid),
                                        MessageLikes(chat'[c], mid), u)
                         /\ OtherMessagesKept(c, mid)
                    ELSE ~lastOp'.ok /\ chat'[c] = chat[c]
                 \/ ~RemoveMessageLikeCall(c, mid, u)

\* C27: every like set of a post, a comment or a chat message holds at most
\* one entry per user; setLike(u, k) on a post, an existing comment or an
\* existing message succeeds, makes u's entry k and keeps every other user's
\* entry and every other like set; removeLike(u) removes u's entry and keeps
\* the others, and when u has no entry (or the comment or message is
\* unknown) it fails and leaves the whole post or chat, updatedAt included,
\* as it was.
C27_LikeSetsOnePerUser ==
    /\ []LikesOnePerUser
    /\ [][PostLikeSteps /\ CommentLikeSteps /\ MessageLikeSteps]_vars

\* A removeCommentLike has just failed, later than the post's last change, on
\* a post whose first comment holds B's like and A's, A's set twice.
C27_Witness ==
    /\ lastOp.op = "removeCommentLike"
    /\ ~lastOp.ok
    /\ clock > post["p1"].updatedAt
    /\ Len(post["p1"].comments) = 2
    /\ post["p1"].comments[1][2].likes = <<<<"B", "Like">>, <<"A", "Dislike">>>>

\* ------------------------------------------------ comment threads: properties

CommentAt(state, cid) == state.comments[CommentIndex(state.comments, cid)][2]

\* The ids of the comments of state that removeComment(commentId) matches.
Matched(state, commentId) ==
    {cid \in CommentIdsOf(state) :
        cid = commentId \/ CommentAt(state, cid).parentCommentId = commentId}

\* The comments of after are those of before whose ids are in keep, each as
\* it was and in the order of before.
KeepsExactly(before, after, keep) ==
    /\ CommentIdsOf(after) = keep
    /\ Len(after.comments) = Cardinality(keep)
    /\ \A cid \in keep : CommentAt(after, cid) = CommentAt(before, cid)
    /\ \A c1 \in keep : \A c2 \in keep :
          CommentIndex(before.comments, c1) < CommentIndex(before.comments, c2)
             => CommentIndex(after.comments, c1) < CommentIndex(after.comments, c2)

\* The replies to the replies to commentId.
Grandchildren(state, commentId) ==
    {cid \in CommentIdsOf(state) :
        /\ cid # commentId
        /\ CommentAt(state, cid).parentCommentId # commentId
        /\ \E mid \in CommentIdsOf(state) \ {commentId} :
              /\ CommentAt(state, cid).parentCommentId = mid
              /\ CommentAt(state, mid).parentCommentId = commentId}

\* C28: removeComment(id) removes exactly the comments whose id is id or
\* whose parentCommentId is id and keeps every other comment as it was, so
\* a reply to a removed reply stays in the post and its parentCommentId
\* names no comment any more; the call succeeds if and only if it removed a
\* comment, and otherwise it fails and leaves the post as it was.
C28_RemoveCommentDirectChildrenOnly ==
    [][\A p \in PostAgentIds : (PostStep("removeComment", p) /\ ~post[p].isNull) =>
          \A commentId \in CommentIds :
             \/ /\ KeepsExactly(post[p], post'[p],
                                 CommentIdsOf(post[p]) \ Matched(post[p], commentId))
                /\ lastOp'.ok <=> Matched(post[p], commentId) # {}
                /\ ~lastOp'.ok => post'[p] = post[p]
                /\ \A cid \in Grandchildren(post[p], commentId) :
                      /\ cid \in CommentIdsOf(post'[p])
                      /\ CommentAt(post'[p], cid).parentCommentId
                            \notin CommentIdsOf(post'[p])
             \/ ~RemoveCommentCall(p, commentId)]_vars

\* removeComment("k1") has just succeeded on the thread k1 <- k2 <- k3: only
\* k3 is left, and it still names k2 as its parent.
C28_Witness ==
    /\ lastOp.op = "removeComment"
    /\ lastOp.ok
    /\ CommentIdsOf(post["p1"]) = {"k3"}
    /\ post["p1"].comments[1][2].parentCommentId = "k2"
    /\ post["p1"].comments[1][2].createdAt = 0
    /\ DanglingParent("p1")

\* ------------------------------------------------ registries: redelivery

\* The times at which a message handled now can be handled once more.
Later == clock..MaxClock

\* postsUpdated(refs) handled now and once more: the second handling leaves
\* the posts of the first.
PostsUpdatedTwice(u) ==
    \A ps \in PostIdLists : \A ct \in {NoConnection, Friend} :
    \A refs \in RefsOfPosts(ps, ct) : \A later \in Later :
        LET once == TimelinePostsUpdated(timeline[u], u, refs, clock)
        IN  TimelinePostsUpdated(once, u, refs, later).posts = once.posts

\* chatUpdated(chatId, updatedAt) handled now and once more.
ChatUpdatedTwice(u) ==
    \A chatId \in ChatIds : \A updatedAt \in 0..clock : \A later \in Later :
        LET once == ChatsChatUpdated(userChats[u], u, chatId, updatedAt, clock)
        IN  ChatsChatUpdated(once, u, chatId, updatedAt, later).chats = once.chats

\* addChat(chatId, createdBy, createdAt) handled now and once more.
AddChatTwice(u) ==
    \A chatId \in ChatIds : \A later \in Later :
        LET once == ChatsAddChat(userChats[u], u, chatId, "B", 0, clock)
        IN  ChatsAddChat(once, u, chatId, "B", 0, later).chats = once.chats

\* C29: a registry message handled twice in a row leaves the Ref list the
\* first handling left: postsUpdated(refs) with pairwise distinct post ids
\* at a Timeline Registry, addChat and chatUpdated at a Chat Registry.
C29_RedeliveryKeepsRefList ==
    \A u \in RegistryOwners :
        /\ PostsUpdatedTwice(u)
        /\ ChatUpdatedTwice(u)
        /\ AddChatTwice(u)

\* ------------------------------------------------ snapshots: properties

\* C30: the snapshot of every state of a post agent, the state of an agent
\* never initialized (null) included, is the byte 1 followed by the bytes of
\* the JSON text of the state, which parses back to the state; an agent
\* started anew that loads the snapshot holds a state equal to the one
\* saved; an agent started anew that loads an empty snapshot stays without
\* state.
C30_SnapshotRoundTrip ==
    /\ [](\A p \in PostAgentIds :
            \E bytes \in {saveSnapshot(post[p])} :
            \E rest \in {SubSeq(bytes, 2, Len(bytes))} :
                /\ bytes[1] = 1
                /\ rest = TextEncode(stringify(JPost(post[p]), 0))
                /\ JsonParse(TextDecode(rest)) = Parsed(JPost(post[p]), Len(rest) + 1))
    /\ [][\A p \in PostAgentIds :
             /\ PostStep("loadSnapshot", p) => lastOp'.ok /\ post'[p] = post[p]
             /\ PostStep("loadEmpty", p) => lastOp'.ok /\ post'[p].isNull]_vars

\* The agent of a post that holds a like, a top-level comment and a liked
\* reply to it has just been recovered from its snapshot.
C30_Witness ==
    /\ lastOp.op = "loadSnapshot"
    /\ lastOp.ok
    /\ ~post["p1"].isNull
    /\ post["p1"].likes # <<>>
    /\ Len(post["p1"].comments) = 2
    /\ post["p1"].comments[1][2].parentCommentId = NoParent
    /\ post["p1"].comments[2][2].parentCommentId = post["p1"].comments[1][1]
    /\ post["p1"].comments[2][2].likes # <<>>
    /\ clock > post["p1"].updatedAt

\* C31: deserialize fails on an empty buffer and on every buffer whose
\* first byte is not the version tag 1, whatever follows it; a loadSnapshot
\* that meets such a failure leaves the state of the agent as it was.
C31_BadSnapshotRejected ==
    /\ [](/\ ~deserialize(<<>>).ok
          /\ \A version \in OtherVersions : \A snapshot \in ForeignSnapshots :
                /\ deserialize(snapshot).ok
                /\ ~deserialize(TaggedWith(version, snapshot)).ok
          /\ \A p \in PostAgentIds : \A version \in OtherVersions :
                ~lastOp.ok /\ lastOp.op = "loadOtherVersion"
                   => ~deserialize(TaggedWith(version, saveSnapshot(post[p]))).ok)
    /\ [][\A p \in PostAgentIds :
             PostStep("loadOtherVersion", p) => ~lastOp'.ok /\ post'[p] = post[p]]_vars

\* A post that holds a comment has just refused a snapshot of another
\* version.
C31_Witness ==
    /\ lastOp.op = "loadOtherVersion"
    /\ ~lastOp.ok
    /\ ~post["p1"].isNull
    /\ post["p1"].createdBy = "A"
    /\ post["p1"].comments # <<>>

\* ------------------------------------------------ queries: properties

KnownPostFields ==
    {CodeUnits[f] : f \in {"created-by", "createdby", "content", "comments"}}

KnownUserFields ==
    {CodeUnits[f] : f \in {"user-id", "userid", "name", "email",
                           "connected-users", "connectedusers"}}

\* The match of an entity as stated: every filter is on a known field and has
\* the value `*` or matches; there is no term, or a term that is `*` or matches.
StatedMatch(query, known, FilterMatches(_, _), TermMatches(_)) ==
    /\ Every(query.fieldFilters,
             LAMBDA f : f[1] \in known /\ (f[2] = Star \/ FilterMatches(f[1], f[2])))
    /\ \/ Len(query.terms) = 0
       \/ Some(query.terms, LAMBDA term : term = Star \/ TermMatches(term))

\* C32: a post or a user is returned for a query if and only if every field
\* filter matches (a filter on an unknown field never does) and, when there
\* are free terms, one of them matches a searched field; a filter or term with
\* the value `*` matches every entity.
C32_QueryMatch ==
    /\ lastOp.op = "getPostIfMatch" /\ ~post[lastOp.who].isNull =>
          lastOp.ok = StatedMatch(lastOp.query, KnownPostFields,
                          LAMBDA f, v : PostFilterMatches(post[lastOp.who], f, v),
                          LAMBDA t : PostTermMatches(post[lastOp.who], t))
    /\ lastOp.op = "search" /\ ~users[lastOp.who].isNull =>
          lastOp.ok = StatedMatch(lastOp.query, KnownUserFields,
                          LAMBDA f, v : UserFilterMatches(users[lastOp.who], f, v),
                          LAMBDA t : UserTermMatches(users[lastOp.who], t))

\* ------------------------------------------------ query texts: properties

\* The tokens as stated: the text is cut at every whitespace character outside
\* double quotes, the quotes are dropped, and empty pieces are not tokens.
RECURSIVE StatedTokensFrom(_, _, _, _, _)
StatedTokensFrom(text, i, tokens, current, inQuotes) ==
    IF i > Len(text)
    THEN IF Len(current) > 0 THEN Append(tokens, current) ELSE tokens
    ELSE IF text[i] \in Whitespace /\ ~inQuotes
         THEN StatedTokensFrom(text, i + 1,
                  IF Len(current) > 0 THEN Append(tokens, current) ELSE tokens,
                  <<>>, inQuotes)
    ELSE IF text[i] = 34
         THEN StatedTokensFrom(text, i + 1, tokens, current, ~inQuotes)
    ELSE StatedTokensFrom(text, i + 1, tokens, Append(current, text[i]), inQuotes)

\* A token is a filter as stated: it holds a colon with no whitespace before it.
StatedFilter(part) ==
    /\ IndexOfColon(part) # 0
    /\ \A i \in 1..(IndexOfColon(part) - 1) : part[i] \notin Whitespace

StatedQuery(text) ==
    LET tokens == StatedTokensFrom(text, 1, <<>>, <<>>, FALSE)
        filters == SelectSeq(tokens, StatedFilter)
    IN  [terms |-> SelectSeq(tokens, LAMBDA part : ~StatedFilter(part)),
         fieldFilters |-> [i \in 1..Len(filters) |-> FilterOf(filters[i])]]

\* C33: the query built from a text has the tokens the text is cut into at
\* every whitespace character outside double quotes, without the quotes and
\* without empty tokens; a token with a colon before any whitespace is a field
\* filter (lower-cased field, value after the first colon), any other token
\* is a free term.
C33_TokensAsStated ==
    lastOp.op = "newQuery" => lastOp.query = StatedQuery(lastOp.text)

\* ------------------------------------------------ connections: quiescence

\* No connectUser or disconnectUser trigger is waiting to be invoked.
NoEchoInFlight == \A u \in ConnUsers : userInbox[u] = <<>>

\* C34: after the externally issued commands (connectUser, then
\* disconnectUser, on two users), with every trigger eventually invoked in
\* the order it was sent, the exchange of echoes ends: from some point on no
\* connectUser or disconnectUser message is in flight.
C34_EchoesQuiesce == <>[]NoEchoInFlight

\* ------------------------------------------------ chat delivery: properties

\* No trigger of or for a chat is waiting to be invoked.
ChatsDelivered ==
    /\ \A c \in ChatAgentIds : chatInbox[c] = <<>>
    /\ \A u \in ChatUsers : userChatsInbox[u] = <<>>

\* The Refs to chat c in the registry of u.
RefsTo(u, c) == SelectSeq(userChats[u].chats, LAMBDA r : r.chatId = c)

\* C35: once every trigger is invoked (in the order of sending at each
\* destination, no registry at its capacity), the registry of every
\* participant of a chat holds exactly one Ref to the chat, with the
\* updatedAt of the chat.
C35_RegistriesFollowChat ==
    ChatsDelivered =>
        \A c \in ChatAgentIds :
            ~chat[c].isNull =>
                \A u \in Range(chat[c].participants) :
                    /\ Len(RefsTo(u, c)) = 1
                    /\ RefsTo(u, c)[1].updatedAt = chat[c].updatedAt

\* C36: once every trigger is invoked, every Ref of a user's chat registry
\* refers to an initialized chat that has the user among its participants,
\* whatever participantsIds createChat was called with (an empty list and a
\* list of the creator alone included).
C36_RefsPointToChats ==
    ChatsDelivered =>
        \A u \in ChatUsers : \A i \in 1..Len(userChats[u].chats) :
            LET c == userChats[u].chats[i].chatId
            IN  /\ ~chat[c].isNull
                /\ Contains(chat[c].participants, u)

\* ------------------------------------------------ registries: overflow

\* Every Ref of all that is not in kept is at most as recent as every Ref of
\* kept.
DroppedAreOldest(all, kept) ==
    \A i \in 1..Len(all) :
        ~Contains(kept, all[i]) =>
            \A j \in 1..Len(kept) : all[i].updatedAt <= kept[j].updatedAt

RegStep(name, u) ==
    /\ lastOp'.op = name
    /\ lastOp'.who = u
    /\ clock' = clock

\* C37: when postsUpdated, createChat or addChat cuts a registry to its
\* capacity, every dropped Ref is at most as recent as every Ref kept; and a
\* chatUpdated for a chat that was added to a registry and has no Ref in it
\* any more fails and leaves the registry without a Ref to that chat.
C37_OverflowDropsOldest ==
    [][\A u \in RegistryOwners :
        /\ (RegStep("postsUpdated", u) /\ lastOp'.cut) =>
              \A refs \in RegRefLists :
                 \/ DroppedAreOldest(
                        SelectSeq(timeline[u].posts,
                                  LAMBDA p : \A i \in 1..Len(refs) :
                                                refs[i].postId # p.postId) \o refs,
                        timeline'[u].posts)
                 \/ ~RegPostsUpdatedCall(u, refs)
        /\ (RegStep("createChat", u) /\ lastOp'.cut) =>
              \A id \in ChatIds : \A ps \in RegParticipantLists :
                 \/ DroppedAreOldest(
                        Append(userChats[u].chats, ChatRef(id, u, clock, clock)),
                        userChats'[u].chats)
                 \/ ~CreateChatCall(u, id, ps)
        /\ (RegStep("addChat", u) /\ lastOp'.cut) =>
              \A id \in ChatIds : \A by \in UserIds : \A at \in Times :
                 \/ DroppedAreOldest(
                        Append(userChats[u].chats, ChatRef(id, by, at, clock)),
                        userChats'[u].chats)
                 \/ ~AddChatCall(u, id, by, at)
        /\ RegStep("chatUpdated", u) =>
              \A id \in usedChatIds :
                 \/ HasChatRef(u, id)
                 \/ /\ ~lastOp'.ok
                    /\ \A i \in 1..Len(userChats'[u].chats) :
                          userChats'[u].chats[i].chatId # id
                 \/ \A at \in Times : ~ChatUpdatedCall(u, id, at)
    ]_vars

\* A chatUpdated has just failed at a full Chat Registry to which more chats
\* were added than it holds, its Refs differing in updatedAt.
C37_Witness ==
    /\ lastOp.op = "chatUpdated"
    /\ ~lastOp.ok
    /\ Len(userChats[lastOp.who].chats) = CHATS_MAX_COUNT
    /\ Cardinality(usedChatIds) > CHATS_MAX_COUNT
    /\ userChats[lastOp.who].chats[1].updatedAt >
          userChats[lastOp.who].chats[CHATS_MAX_COUNT].updatedAt

\* ------------------------------------------------ fan-out: several kinds

\* The connection kinds user u has in the record of author a, in the order of
\* the record.
KindList(a, u) ==
    IF ConnectionIndex(users[a].connectedUsers, u) = 0 THEN <<>>
    ELSE users[a].connectedUsers[ConnectionIndex(users[a].connectedUsers, u)].connectionTypes

\* C38: a drain for author a sends the timeline of a user with several
\* connection kinds one postsUpdated per kind, in the order of a's record,
\* each with the same posts; and once all of them are handled the timeline
\* holds one Ref per post, tagged with the last kind of the record.
C38_LastKindWins ==
    /\ [][(DrainStep /\ lastOp'.batch # <<>> /\ ~users[lastOp'.who].isNull) =>
            \A u \in UserIds \ {lastOp'.who} :
                NewTriggers(u) =
                    [k \in 1..Len(KindList(lastOp'.who, u)) |->
                        TaggedRefs(lastOp'.batch, lastOp'.who,
                                   KindList(lastOp'.who, u)[k])]
         ]_vars
    /\ [](\A a \in FanAuthors : \A u \in UserIds \ {a} :
            timelineInbox[u] = <<>> =>
                /\ \A i, j \in 1..Len(timeline[u].posts) :
                      timeline[u].posts[i].postId = timeline[u].posts[j].postId => i = j
                /\ \A i \in 1..Len(timeline[u].posts) :
                      /\ KindList(a, u) # <<>>
                      /\ timeline[u].posts[i].createdByConnectionType =
                            KindList(a, u)[Len(KindList(a, u))])

\* Both posts of A have reached the timeline of B, who is a follower and a
\* friend in A's record: every trigger is handled and both Refs say Friend.
C38_Witness ==
    /\ lastOp.op = "postsUpdated"
    /\ lastOp.who = "B"
    /\ timelineInbox["B"] = <<>>
    /\ KindList("A", "B") = <<Follower, Friend>>
    /\ Len(timeline["B"].posts) = 2
    /\ \A i \in 1..2 : timeline["B"].posts[i].createdByConnectionType = Friend

\* ------------------------------------------------ updatedAt

PostCommands ==
    {"initPost", "setLike", "removeLike", "addComment", "removeComment",
     "setCommentLike", "removeCommentLike"}

ChatCommands ==
    {"initChat", "addParticipants", "addMessage", "removeMessage",
     "setMessageLike", "removeMessageLike"}

UserCommands == {"setName", "connectUser", "disconnectUser"}

\* What a command step does to the entity it is invoked at: a command that
\* took effect leaves updatedAt at the time of the command, any other leaves
\* the state as it was.
CommandEffect(before, after, effective) ==
    IF effective THEN after.updatedAt = clock ELSE after = before

\* C39: a command on a post, a chat or a user that succeeds with an effect
\* sets the entity's updatedAt to the time of the command, a command that
\* fails or has nothing to do leaves the whole state of the entity as it was,
\* and updatedAt never decreases.
C39_UpdatedAtFollowsCommands ==
    [][clock' = clock =>
        /\ \A p \in PostAgentIds :
            /\ (lastOp'.op \in PostCommands /\ lastOp'.who = p) =>
                  CommandEffect(post[p], post'[p], lastOp'.ok)
            /\ post'[p].updatedAt >= post[p].updatedAt
        /\ \A c \in ChatAgentIds :
            /\ (lastOp'.op \in ChatCommands /\ lastOp'.who = c) =>
                  CommandEffect(chat[c], chat'[c], lastOp'.ok)
            /\ chat'[c].updatedAt >= chat[c].updatedAt
        /\ \A u \in UserIds :
            /\ (lastOp'.op = "setName" /\ lastOp'.who = u) =>
                  CommandEffect(users[u], users'[u], TRUE)
            /\ (lastOp'.op \in {"connectUser", "disconnectUser"} /\ lastOp'.who = u) =>
                  CommandEffect(users[u], users'[u], lastOp'.cut)
            /\ users'[u].updatedAt >= users[u].updatedAt
    ]_vars

\* ------------------------------------------------ commands before initialize

\* C40: a command other than initPost / initChat at a post or chat that has no
\* state fails, sends no notification and leaves the actor without state; and
\* initPost at a post without state succeeds, as does initChat with at least
\* two distinct participants at a chat without state.
C40_CommandsNeedInitialize ==
    [][clock' = clock =>
        /\ \A p \in PostAgentIds :
            (post[p].isNull /\ lastOp'.who = p) =>
                /\ lastOp'.op \in PostCommands \ {"initPost"} =>
                      /\ ~lastOp'.ok
                      /\ post'[p].isNull
                      /\ updaterInbox' = updaterInbox
                      /\ timelineInbox' = timelineInbox
                /\ lastOp'.op = "initPost" => lastOp'.ok /\ ~post'[p].isNull
        /\ \A c \in ChatAgentIds :
            (chat[c].isNull /\ lastOp'.who = c) =>
                /\ lastOp'.op \in ChatCommands \ {"initChat"} =>
                      /\ ~lastOp'.ok
                      /\ chat'[c].isNull
                      /\ userChatsInbox' = userChatsInbox
                /\ lastOp'.op = "initChat" =>
                      \A ps \in InitParticipantLists : \A by \in ChatCreators :
                      \A at \in Times :
                          \/ ~InitChatCall(c, ps, by, at)
                          \/ /\ lastOp'.ok <=> Len(Dedup(Append(ps, by))) >= 2
                             /\ lastOp'.ok <=> ~chat'[c].isNull
    ]_vars

\* A removeMessageLike has just failed at a chat that has no state, after the
\* clock has advanced.
C40_Witness ==
    /\ lastOp.op = "removeMessageLike"
    /\ ~lastOp.ok
    /\ chat[lastOp.who].isNull
    /\ clock > 0

====
